---- MODULE Spec2Model ----
(***************************************************************************)
(* Verification model of the stock-watcher analysis core:                  *)
(*   - stock_analysis/backtest.py : Portfolio and BacktestEngine           *)
(*   - backtest.py                : signal reliability scanner             *)
(*   - technical_old.py           : hand-rolled indicators, live analyze() *)
(*   - stock_analysis/signals.py  : cross rule, combined and trading       *)
(*                                  signals                                *)
(*   - stock_analysis/indicators.py : the pandas indicators they call      *)
(*   - technical.py               : analyze_stock                          *)
(*   - portfolio.py               : cmd_buy and cmd_sell on the ledger     *)
(*                                  files, as concurrent processes         *)
(*                                                                         *)
(* Python floats are modelled by exact integer / rational arithmetic:      *)
(* money and prices are integers, an average entry price is a reduced      *)
(* fraction [num, den], position_size and transaction_cost are fractions.  *)
(***************************************************************************)
EXTENDS Integers, Sequences, FiniteSets, TLC

VARIABLES
    portfolio,          \* Portfolio object: [cash, positions, history]
    call,               \* arguments of the last Portfolio.buy / Portfolio.sell call
    ret,                \* what that call returned ("True", "False") or the error it raised
    ncalls,             \* number of direct Portfolio calls made so far
    initial_capital,    \* BacktestEngine.initial_capital
    trades,             \* BacktestEngine.trades
    results,            \* BacktestEngine.results
    ohlcv,              \* run_backtest argument data: [columns, index, close]
    signal_series,      \* run_backtest argument signals: [index, values]
    data,               \* run_backtest local data after alignment: the closes, in index order
    signals,            \* run_backtest local signals after alignment: one signal per bar
    dates,              \* run_backtest local: the index labels of the bars processed
    position_size,      \* run_backtest argument, a fraction [num, den]
    transaction_cost,   \* run_backtest argument, a fraction [num, den]
    pc,                 \* where run_backtest is: "idle", "loop", "done", or the error raised
    bar,                \* number of bars the loop has processed
    portfolio_values,   \* run_backtest local: the recorded per-bar values
    runs,               \* number of run_backtest invocations started
    fetched,            \* klines: the daily bars fetch_daily_klines returned, oldest first
    scanned,            \* the last detect_signals_for_day call and what it returned
    live,               \* the last analyze call and what it returned
    scan_pc,            \* where backtest_stock is: "idle", "scanning", "done"
    scan_day,           \* backtest_stock local day_idx: the next day to scan
    signal_stats,       \* backtest_stock local: per-signal statistics, in insertion order
    fired,              \* every event detect_signals_for_day returned to the loop, with its day
    report,             \* what backtest_stock returned
    cross_day,          \* the next bar at which the MA5/20 cross rule is evaluated
    crosses,            \* the events the rule returned so far, with their day
    crossed,            \* what golden_death_cross returned for the whole series
    lib_call,           \* the stock_analysis function called last, with its arguments
    lib_ret,            \* what that call returned, or the error it raised
    files,              \* PORTFOLIO_FILE and TRADES_FILE on disk: None when empty, else the JSON value
    locks,              \* the flock holders of each file: pairs <<process, "SH" or "EX">>
    procs               \* the running portfolio.py commands: arguments, position, locals

vars == <<portfolio, call, ret, ncalls, initial_capital, trades, results, ohlcv,
          signal_series, dates, data, signals, position_size, transaction_cost, pc, bar, portfolio_values, runs,
          fetched, scanned, live, scan_pc, scan_day, signal_stats, fired, report,
          cross_day, crosses, crossed, lib_call, lib_ret, files, locks, procs>>

portfolioVars == <<portfolio, call, ret, ncalls>>
engineVars == <<initial_capital, trades, results, ohlcv, signal_series, dates, data,
                signals, position_size,
                transaction_cost, pc, bar, portfolio_values, runs>>
statsVars == <<scan_pc, scan_day, signal_stats, fired, report>>
crossVars == <<cross_day, crosses, crossed>>
libVars == <<lib_call, lib_ret>>
ledgerVars == <<files, locks, procs>>
scannerVars == <<fetched, scanned, live, scan_pc, scan_day, signal_stats, fired, report,
                 cross_day, crosses, crossed, lib_call, lib_ret>>

-----------------------------------------------------------------------------
(* Bounds of the model *)

MaxCalls == 3
MaxBars == 3
MaxRuns == 2
BaseLen == 30
MaxExtraBars == 2
HistoryLen == 52
CrossLen == 60

Symbols == {"close", "AAA"}
PortfolioCapitals == {0, 3, 7}
Quantities == {0, 1, 2}
Prices == {0, 1, 2}
EngineCapitals == {100000, 250}
ClosePrices == {100, 80, 125}
PositionSizes == {[num |-> 1, den |-> 10], [num |-> 1, den |-> 1]}
TransactionCosts == {[num |-> 1, den |-> 1000], [num |-> 0, den |-> 1]}

-----------------------------------------------------------------------------
(* Arithmetic helpers *)

Abs(x) == IF x < 0 THEN -x ELSE x

RECURSIVE GCD(_, _)
GCD(a, b) == IF b = 0 THEN a ELSE GCD(b, a % b)

\* a fraction in lowest terms, den > 0
Frac(n, d) == LET g == GCD(Abs(n), Abs(d)) IN [num |-> n \div g, den |-> d \div g]

Last(s) == s[Len(s)]

-----------------------------------------------------------------------------
(* stock_analysis/backtest.py : Position, Portfolio *)

Position(symbol, quantity, entry_price, entry_date) ==
    [symbol |-> symbol, quantity |-> quantity, entry_price |-> entry_price,
     entry_date |-> entry_date, position_type |-> "long"]

NoPositions == [s \in {} |-> 0]

\* Portfolio.__init__
NewPortfolio(capital) == [cash |-> capital, positions |-> NoPositions, history |-> <<>>]

RECURSIVE SumPositions(_, _, _)
SumPositions(positions, prices, todo) ==
    IF todo = {} THEN 0
    ELSE LET s == CHOOSE x \in todo : TRUE
         IN (IF s \in DOMAIN prices THEN positions[s].quantity * prices[s] ELSE 0)
            + SumPositions(positions, prices, todo \ {s})

\* Portfolio.get_total_value (every stored position is 'long': buy is the only
\* constructor of a Position and sell keeps the type)
GetTotalValue(pf, prices) ==
    pf.cash + SumPositions(pf.positions, prices, DOMAIN pf.positions)

\* Portfolio.buy, line 88: cost = quantity * price
MutCostIsPrice(quantity, price) == price

BuyCost(quantity, price) == quantity * price

\* Portfolio.buy, line 89: the insufficient-funds test
MutNoFundsCheck(cost, cash) == FALSE

InsufficientFunds(cost, cash) == cost > cash

\* Portfolio.buy, lines 98-100: the weighted average entry price
\*   (existing.quantity * existing.entry_price + cost) / total_quantity
\* with entry_price = num / den, as the fraction in lowest terms
MutEntryKeepsOld(existing_pos, quantity, cost) == existing_pos.entry_price

WeightedEntryPrice(existing_pos, quantity, cost) ==
    Frac(existing_pos.quantity * existing_pos.entry_price.num
           + cost * existing_pos.entry_price.den,
         existing_pos.entry_price.den * (existing_pos.quantity + quantity))

\* Portfolio.buy: the portfolio afterwards and what the call returned
PortfolioBuy(pf, symbol, quantity, price, date) ==
    LET cost == BuyCost(quantity, price)
        cash1 == pf.cash - cost
        rec == [date |-> date, symbol |-> symbol, action |-> "BUY", quantity |-> quantity,
                price |-> price, cost |-> cost, cash_after |-> cash1]
    IN IF InsufficientFunds(cost, pf.cash) THEN [pf |-> pf, ret |-> "False"]
       ELSE IF symbol \in DOMAIN pf.positions
       THEN LET existing_pos == pf.positions[symbol]
                total_quantity == existing_pos.quantity + quantity
            IN IF total_quantity = 0
               THEN \* total_cost / total_quantity raises after cash -= cost has run
                    [pf |-> [pf EXCEPT !.cash = cash1], ret |-> "ZeroDivisionError"]
               ELSE [pf |-> [cash |-> cash1,
                             positions |-> [pf.positions EXCEPT ![symbol] =
                                 Position(symbol, total_quantity,
                                          WeightedEntryPrice(existing_pos, quantity, cost),
                                          existing_pos.entry_date)],
                             history |-> Append(pf.history, rec)],
                     ret |-> "True"]
       ELSE [pf |-> [cash |-> cash1,
                     positions |-> [s \in DOMAIN pf.positions \cup {symbol} |->
                                       IF s = symbol
                                       THEN Position(symbol, quantity,
                                                     [num |-> price, den |-> 1], date)
                                       ELSE pf.positions[s]],
                     history |-> Append(pf.history, rec)],
             ret |-> "True"]

\* Portfolio.sell, line 148: the oversell test
MutNoOversellCheck(quantity, held) == FALSE

Oversell(quantity, held) == quantity > held

\* Portfolio.sell, line 156: the position is closed completely
MutNeverClosed(remaining_quantity) == FALSE

PositionClosed(remaining_quantity) == remaining_quantity = 0

\* Portfolio.sell
PortfolioSell(pf, symbol, quantity, price, date) ==
    IF symbol \notin DOMAIN pf.positions THEN [pf |-> pf, ret |-> "False"]
    ELSE LET position == pf.positions[symbol]
             revenue == quantity * price
             cash1 == pf.cash + revenue
             remaining_quantity == position.quantity - quantity
             rec == [date |-> date, symbol |-> symbol, action |-> "SELL",
                     quantity |-> quantity, price |-> price, revenue |-> revenue,
                     cash_after |-> cash1]
         IN IF Oversell(quantity, position.quantity) THEN [pf |-> pf, ret |-> "False"]
            ELSE [pf |-> [cash |-> cash1,
                          positions |->
                              IF PositionClosed(remaining_quantity)
                              THEN [s \in DOMAIN pf.positions \ {symbol} |-> pf.positions[s]]
                              ELSE [pf.positions EXCEPT ![symbol] =
                                       Position(symbol, remaining_quantity,
                                                position.entry_price, position.entry_date)],
                          history |-> Append(pf.history, rec)],
                  ret |-> "True"]

-----------------------------------------------------------------------------
(* Direct use of a Portfolio: any sequence of buy and sell calls *)

NoCall == [op |-> "none"]

NoFrame == [columns |-> {}, index |-> <<>>, close |-> <<>>]
NoSeries == [index |-> <<>>, values |-> <<>>]

EngineIdle ==
    /\ initial_capital = 0
    /\ trades = <<>>
    /\ results = [status |-> "none"]
    /\ ohlcv = NoFrame
    /\ signal_series = NoSeries
    /\ dates = <<>>
    /\ data = <<>>
    /\ signals = <<>>
    /\ position_size = [num |-> 1, den |-> 10]
    /\ transaction_cost = [num |-> 1, den |-> 1000]
    /\ pc = "idle"
    /\ bar = 0
    /\ portfolio_values = <<>>
    /\ runs = 0

NoScan == [status |-> "none"]
NoAnalysis == [status |-> "none"]

NoReport == [status |-> "none"]

StatsIdle ==
    /\ scan_pc = "idle"
    /\ scan_day = 0
    /\ signal_stats = <<>>
    /\ fired = <<>>
    /\ report = NoReport

NoCrosses == [status |-> "none"]

CrossIdle ==
    /\ cross_day = 0
    /\ crosses = <<>>
    /\ crossed = NoCrosses

NoLibCall == [fn |-> "none"]
NoLibReturn == [status |-> "none"]

LibIdle ==
    /\ lib_call = NoLibCall
    /\ lib_ret = NoLibReturn

PORTFOLIO_FILE == "portfolio.json"
TRADES_FILE == "trades.json"
LedgerFiles == {PORTFOLIO_FILE, TRADES_FILE}

\* no portfolio.py command is running
LedgerIdle ==
    /\ files = [path \in LedgerFiles |-> <<>>]
    /\ locks = [path \in LedgerFiles |-> {}]
    /\ procs = <<>>

ScannerIdle ==
    /\ fetched = <<>>
    /\ scanned = NoScan
    /\ live = NoAnalysis
    /\ StatsIdle
    /\ CrossIdle
    /\ LibIdle

InitPortfolio ==
    /\ \E capital \in PortfolioCapitals : portfolio = NewPortfolio(capital)
    /\ call = NoCall
    /\ ret = "none"
    /\ ncalls = 0
    /\ EngineIdle
    /\ ScannerIdle
    /\ LedgerIdle

\* the calls are made on successive dates
Buy(symbol, quantity, price) ==
    /\ ncalls < MaxCalls
    /\ LET date == ncalls + 1
           r == PortfolioBuy(portfolio, symbol, quantity, price, date)
       IN /\ portfolio' = r.pf
          /\ ret' = r.ret
    /\ call' = [op |-> "buy", symbol |-> symbol, quantity |-> quantity,
                price |-> price, date |-> ncalls + 1]
    /\ ncalls' = ncalls + 1
    /\ UNCHANGED engineVars
    /\ UNCHANGED scannerVars
    /\ UNCHANGED ledgerVars

Sell(symbol, quantity, price) ==
    /\ ncalls < MaxCalls
    /\ LET date == ncalls + 1
           r == PortfolioSell(portfolio, symbol, quantity, price, date)
       IN /\ portfolio' = r.pf
          /\ ret' = r.ret
    /\ call' = [op |-> "sell", symbol |-> symbol, quantity |-> quantity,
                price |-> price, date |-> ncalls + 1]
    /\ ncalls' = ncalls + 1
    /\ UNCHANGED engineVars
    /\ UNCHANGED scannerVars
    /\ UNCHANGED ledgerVars

\* quantities from 0: Portfolio.buy and Portfolio.sell validate nothing
NextPortfolio ==
    \E symbol \in Symbols, quantity \in Quantities, price \in Prices :
        \/ Buy(symbol, quantity, price)
        \/ Sell(symbol, quantity, price)

SpecPortfolio == InitPortfolio /\ [][NextPortfolio]_vars

\* the same with every call given a positive quantity
NextPortfolioPositive ==
    \E symbol \in Symbols, quantity \in Quantities \ {0}, price \in Prices :
        \/ Buy(symbol, quantity, price)
        \/ Sell(symbol, quantity, price)

SpecPortfolioPositive == InitPortfolio /\ [][NextPortfolioPositive]_vars

-----------------------------------------------------------------------------
(* stock_analysis/backtest.py : BacktestEngine *)

\* the one symbol run_backtest trades under
Asset == "close"

\* BacktestEngine.run_backtest, lines 460-462:
\*   shares_to_buy = int(available_cash * position_size / close)
SharesToBuy(cash, size, close) == (cash * size.num) \div (size.den * close)

\* lines 466-469: actual_cost = shares * close * (1 + transaction_cost) <= cash
Affordable(shares, close, tcost, cash) ==
    shares * close * (tcost.den + tcost.num) <= cash * tcost.den

\* line 458: the bar carries a buy signal
MutBuyUnlessSell(signal) == signal >= 0

IsBuySignal(signal) == signal = 1

\* lines 458-478: what the bar's signal does to the portfolio
ActOnSignal(pf, signal, close, size, tcost, date) ==
    IF IsBuySignal(signal)
    THEN LET shares_to_buy == SharesToBuy(pf.cash, size, close)
         IN IF shares_to_buy > 0 /\ Affordable(shares_to_buy, close, tcost, pf.cash)
            THEN PortfolioBuy(pf, Asset, shares_to_buy, close, date).pf
            ELSE pf
    ELSE IF signal = -1
    THEN IF Asset \in DOMAIN pf.positions
         THEN PortfolioSell(pf, Asset, pf.positions[Asset].quantity, close, date).pf
         ELSE pf
    ELSE pf

MutFourCols == {"open", "high", "low", "close"}

\* required_cols, line 427
OhlcvCols == {"open", "high", "low", "close", "volume"}

Labels(index) == {index[i] : i \in 1..Len(index)}

\* lines 433-435: the index both arguments are cut to; the labels of an index
\* are distinct and increasing, and so are those of the intersection
AlignedIdx(frame_index, series_index) ==
    IF frame_index = series_index THEN frame_index
    ELSE SelectSeq(frame_index, LAMBDA label : label \in Labels(series_index))

\* .loc[aligned_idx] on a column (lines 436-437)
Loc(index, column, aligned_idx) ==
    [k \in 1..Len(aligned_idx) |->
        column[CHOOSE i \in 1..Len(index) : index[i] = aligned_idx[k]]]

WholeIndex(n) == [i \in 1..n |-> i]

\* BacktestEngine.__init__ and the arguments the caller will pass to run_backtest
InitEngine ==
    /\ initial_capital \in EngineCapitals
    /\ portfolio = NewPortfolio(initial_capital)
    /\ trades = <<>>
    /\ results = [status |-> "none"]
    /\ \E n \in 1..MaxBars :
          /\ \E close \in [1..n -> ClosePrices] :
                ohlcv = [columns |-> OhlcvCols, index |-> WholeIndex(n), close |-> close]
          /\ \E values \in [1..n -> {-1, 0, 1}] :
                signal_series = [index |-> WholeIndex(n), values |-> values]
    /\ data = <<>>
    /\ signals = <<>>
    /\ dates = <<>>
    /\ position_size \in PositionSizes
    /\ transaction_cost \in TransactionCosts
    /\ pc = "idle"
    /\ bar = 0
    /\ portfolio_values = <<>>
    /\ runs = 0
    /\ call = NoCall
    /\ ret = "none"
    /\ ncalls = 0
    /\ ScannerIdle
    /\ LedgerIdle

\* run_backtest is called, lines 421-444: the arguments are checked and cut to
\* their common index (the engine keeps the portfolio it has)
StartRun ==
    /\ pc \in {"idle", "done", "ValueError"}
    /\ runs < MaxRuns
    /\ LET aligned_idx == AlignedIdx(ohlcv.index, signal_series.index)
       IN IF OhlcvCols \ ohlcv.columns # {}
          THEN /\ pc' = "ValueError"
               /\ data' = <<>>
               /\ signals' = <<>>
          ELSE /\ data' = Loc(ohlcv.index, ohlcv.close, aligned_idx)
               /\ signals' = Loc(signal_series.index, signal_series.values, aligned_idx)
               /\ pc' = IF Len(aligned_idx) = 0 THEN "ValueError" ELSE "loop"
    /\ bar' = 0
    /\ portfolio_values' = <<>>
    /\ dates' = <<>>
    /\ runs' = runs + 1
    /\ UNCHANGED <<portfolio, call, ret, ncalls, initial_capital, trades, results,
                   ohlcv, signal_series, position_size, transaction_cost>>
    /\ UNCHANGED scannerVars
    /\ UNCHANGED ledgerVars

\* the position marked at the close of the bar before
MutMarkAtPreviousClose ==
    /\ pc = "loop"
    /\ bar < Len(data)
    /\ LET current_date == AlignedIdx(ohlcv.index, signal_series.index)[bar + 1]
           close == data[bar + 1]
           previous_close == data[IF bar = 0 THEN 1 ELSE bar]
       IN /\ portfolio_values' =
                Append(portfolio_values,
                       GetTotalValue(portfolio, [s \in {Asset} |-> previous_close]))
          /\ dates' = Append(dates, current_date)
          /\ portfolio' = ActOnSignal(portfolio, signals[bar + 1], close, position_size,
                                      transaction_cost, current_date)
    /\ bar' = bar + 1
    /\ UNCHANGED <<call, ret, ncalls, initial_capital, trades, results, ohlcv,
                   signal_series, data, signals, position_size, transaction_cost, pc, runs>>
    /\ UNCHANGED scannerVars
    /\ UNCHANGED ledgerVars

\* one pass of the loop, lines 447-478: record the value, then act on the signal
ProcessBar ==
    /\ pc = "loop"
    /\ bar < Len(data)
    /\ LET current_date == AlignedIdx(ohlcv.index, signal_series.index)[bar + 1]
           close == data[bar + 1]
       IN /\ portfolio_values' =
                Append(portfolio_values, GetTotalValue(portfolio, [s \in {Asset} |-> close]))
          /\ dates' = Append(dates, current_date)
          /\ portfolio' = ActOnSignal(portfolio, signals[bar + 1], close, position_size,
                                      transaction_cost, current_date)
    /\ bar' = bar + 1
    /\ UNCHANGED <<call, ret, ncalls, initial_capital, trades, results, ohlcv,
                   signal_series, data, signals, position_size, transaction_cost, pc, runs>>
    /\ UNCHANGED scannerVars
    /\ UNCHANGED ledgerVars

\* lines 480-511: the results of the run
Finish ==
    /\ pc = "loop"
    /\ bar = Len(data)
    /\ results' = [status |-> "ok",
                   initial_capital |-> initial_capital,
                   final_capital |-> Last(portfolio_values),
                   total_trades |-> Len(trades),
                   portfolio_values |-> portfolio_values,
                   start_date |-> dates[1],
                   end_date |-> Last(dates)]
    /\ pc' = "done"
    /\ UNCHANGED <<portfolio, call, ret, ncalls, initial_capital, trades, ohlcv,
                   signal_series, dates, data, signals, position_size, transaction_cost,
                   bar, portfolio_values, runs>>
    /\ UNCHANGED scannerVars
    /\ UNCHANGED ledgerVars

NextEngine == StartRun \/ ProcessBar \/ Finish

SpecEngine == InitEngine /\ [][NextEngine]_vars

\* Calls whose arguments do not line up: the frame has MaxBars bars and may
\* lack the volume column; the signals are all buys or all sells, over the
\* same index, one shifted by a bar, or one that shares no label with it.
ReconcileFrames ==
    {[columns |-> columns, index |-> WholeIndex(MaxBars),
      close |-> [i \in 1..MaxBars |-> IF i % 2 = 1 THEN 80 ELSE 100]] :
        columns \in {OhlcvCols, OhlcvCols \ {"volume"}}}

ReconcileSeries ==
    {[index |-> [i \in 1..MaxBars |-> i + shift], values |-> [i \in 1..MaxBars |-> signal]] :
        shift \in {0, 1, MaxBars}, signal \in {1, -1}}

InitReconcile ==
    /\ initial_capital = 250
    /\ portfolio = NewPortfolio(initial_capital)
    /\ trades = <<>>
    /\ results = [status |-> "none"]
    /\ ohlcv \in ReconcileFrames
    /\ signal_series \in ReconcileSeries
    /\ data = <<>>
    /\ signals = <<>>
    /\ dates = <<>>
    /\ position_size \in PositionSizes
    /\ transaction_cost = [num |-> 0, den |-> 1]
    /\ pc = "idle"
    /\ bar = 0
    /\ portfolio_values = <<>>
    /\ runs = 0
    /\ call = NoCall
    /\ ret = "none"
    /\ ncalls = 0
    /\ ScannerIdle
    /\ LedgerIdle

\* between two calls the caller prepares other arguments
PassOtherArguments ==
    /\ pc \in {"done", "ValueError"}
    /\ runs < MaxRuns
    /\ ohlcv' \in ReconcileFrames
    /\ signal_series' \in ReconcileSeries
    /\ <<ohlcv', signal_series'>> # <<ohlcv, signal_series>>
    /\ UNCHANGED <<portfolio, call, ret, ncalls, initial_capital, trades, results, dates,
                   data, signals, position_size, transaction_cost, pc, bar,
                   portfolio_values, runs>>
    /\ UNCHANGED scannerVars
    /\ UNCHANGED ledgerVars

NextReconcile == StartRun \/ ProcessBar \/ Finish \/ PassOtherArguments

SpecReconcile == InitReconcile /\ [][NextReconcile]_vars

-----------------------------------------------------------------------------
(* technical_old.py : the hand-rolled indicators                           *)
(*                                                                         *)
(* Closes, highs and lows are whole numbers of price units.  A value the   *)
(* code rounds to 4 decimals is an integer count of 1/Scale4, one it       *)
(* rounds to 2 decimals an integer count of 1/Scale2; round() is rounding  *)
(* to the nearest such count.  None is <<>> and a number v is <<v>>, and   *)
(* a list is indexed from 1 (the code's index + 1).                        *)

Scale4 == 10000
Scale2 == 100

None == <<>>
Some(v) == <<v>>
Val(x) == x[1]

\* Python truth of an entry: neither None nor 0
Truthy(x) == x # None /\ Val(x) # 0

\* n / d rounded to the nearest integer (d > 0), halves to the even neighbour
RoundDiv(n, d) ==
    LET q == n \div d
        r == n % d
    IN IF 2 * r < d THEN q
       ELSE IF 2 * r > d THEN q + 1
       ELSE IF q % 2 = 0 THEN q ELSE q + 1

RECURSIVE SumRange(_, _, _)
SumRange(xs, from, to) ==
    IF from > to THEN 0 ELSE xs[to] + SumRange(xs, from, to - 1)

\* calc_ma: entries in 1/Scale4
MutPartialMA(closes, period) ==
    [i \in 1..Len(closes) |->
        LET from == IF i - period + 1 < 1 THEN 1 ELSE i - period + 1
        IN Some(RoundDiv(SumRange(closes, from, i) * Scale4, i - from + 1))]

CalcMA(closes, period) ==
    IF Len(closes) < period THEN [i \in 1..Len(closes) |-> None]
    ELSE [i \in 1..Len(closes) |->
             IF i < period THEN None
             ELSE Some(RoundDiv(SumRange(closes, i - period + 1, i) * Scale4, period))]

\* calc_ema over values in 1/Scale4: ema = round(ema * (1 - k) + v * k, 4), k = 2 / (period + 1)
RECURSIVE EmaFrom(_, _, _)
EmaFrom(values, period, ema) ==
    IF Len(ema) = Len(values) THEN ema
    ELSE EmaFrom(values, period,
                 Append(ema, RoundDiv(Last(ema) * (period - 1) + 2 * values[Len(ema) + 1],
                                      period + 1)))

CalcEMA(values, period) ==
    IF values = <<>> THEN <<>> ELSE EmaFrom(values, period, <<values[1]>>)

\* the histogram taken from the slow average instead of dea
MutHistFromSlowEma(closes) ==
    LET scaled == [i \in 1..Len(closes) |-> closes[i] * Scale4]
        ema_fast == CalcEMA(scaled, 12)
        ema_slow == CalcEMA(scaled, 26)
        dif == [i \in 1..Len(closes) |-> ema_fast[i] - ema_slow[i]]
        dea == CalcEMA(dif, 9)
    IN [dif |-> dif, dea |-> dea,
        macd |-> [i \in 1..Len(closes) |-> (dif[i] - ema_slow[i]) * 2]]

\* calc_macd(closes, fast=12, slow=26, signal=9): dif, dea and the histogram
CalcMACD(closes) ==
    LET scaled == [i \in 1..Len(closes) |-> closes[i] * Scale4]
        ema_fast == CalcEMA(scaled, 12)
        ema_slow == CalcEMA(scaled, 26)
        dif == [i \in 1..Len(closes) |-> ema_fast[i] - ema_slow[i]]
        dea == CalcEMA(dif, 9)
    IN [dif |-> dif, dea |-> dea,
        macd |-> [i \in 1..Len(closes) |-> (dif[i] - dea[i]) * 2]]

MaxOf(S) == CHOOSE x \in S : \A y \in S : y <= x
MinOf(S) == CHOOSE x \in S : \A y \in S : x <= y

\* calc_kdj(klines, n=9, m1=3, m2=3): k and d in 1/Scale2, both seeded with 50.0
RECURSIVE KdjFrom(_, _, _)
KdjFrom(klines, k_vals, d_vals) ==
    IF Len(k_vals) = Len(klines) THEN [k |-> k_vals, d |-> d_vals]
    ELSE LET i == Len(k_vals) + 1
             start == IF i - 9 + 1 > 1 THEN i - 9 + 1 ELSE 1
             hn == MaxOf({klines[x].high : x \in start..i})
             ln == MinOf({klines[x].low : x \in start..i})
             c == klines[i].close
             k0 == IF i = 1 THEN 50 * Scale2 ELSE k_vals[i - 1]
             d0 == IF i = 1 THEN 50 * Scale2 ELSE d_vals[i - 1]
             \* k = round(2/3 * k + 1/3 * rsv, 2), rsv = (c - ln) / (hn - ln) * 100 or 50
             k == IF hn # ln
                  THEN RoundDiv(2 * k0 * (hn - ln) + (c - ln) * 100 * Scale2, 3 * (hn - ln))
                  ELSE RoundDiv(2 * k0 + 50 * Scale2, 3)
             d == RoundDiv(2 * d0 + k, 3)
         IN KdjFrom(klines, Append(k_vals, k), Append(d_vals, d))

CalcKDJ(klines) ==
    LET kd == KdjFrom(klines, <<>>, <<>>)
    IN [k |-> kd.k, d |-> kd.d,
        j |-> [i \in 1..Len(klines) |-> 3 * kd.k[i] - 2 * kd.d[i]]]

\* the float averages of calc_rsi are kept to 6 decimals
AvgScale == 1000 * 1000

Gain(closes, i) == IF closes[i] - closes[i - 1] > 0 THEN closes[i] - closes[i - 1] ELSE 0
Loss(closes, i) == IF closes[i - 1] - closes[i] > 0 THEN closes[i - 1] - closes[i] ELSE 0

\* 100 * g / (g + l), as a count of 1/Scale2, rounded
PercentOf(g, l) ==
    LET whole == (100 * g) \div (g + l)
        rest == (100 * g) % (g + l)
    IN whole * Scale2 + RoundDiv(rest * Scale2, g + l)

\* 100 - 100 / rs
MutForgetOnePlus(avg_gain, avg_loss) ==
    IF avg_gain = 0 THEN 0
    ELSE 100 * Scale2 - ((100 * avg_loss) \div avg_gain) * Scale2
                      - RoundDiv(((100 * avg_loss) % avg_gain) * Scale2, avg_gain)

\* rs = avg_gain / avg_loss if avg_loss != 0 else 100; round(100 - 100 / (1 + rs), 2)
RsiValue(avg_gain, avg_loss) ==
    IF avg_loss # 0 THEN PercentOf(avg_gain, avg_loss)
    ELSE RoundDiv(100 * 100 * Scale2, 101)

\* lines 141-146: Wilder's smoothing; averages[k] holds avg_gain and avg_loss
\* after the bar at 0-based index period + k - 1
RECURSIVE RsiFrom(_, _, _)
RsiFrom(closes, period, averages) ==
    IF period + Len(averages) = Len(closes) THEN averages
    ELSE LET i == period + Len(averages) + 1
             prev == Last(averages)
         IN RsiFrom(closes, period, Append(averages,
                [avg_gain |-> RoundDiv(prev.avg_gain * (period - 1) + Gain(closes, i) * AvgScale, period),
                 avg_loss |-> RoundDiv(prev.avg_loss * (period - 1) + Loss(closes, i) * AvgScale, period)]))

RECURSIVE SumGains(_, _)
SumGains(closes, i) == IF i < 2 THEN 0 ELSE Gain(closes, i) + SumGains(closes, i - 1)
RECURSIVE SumLosses(_, _)
SumLosses(closes, i) == IF i < 2 THEN 0 ELSE Loss(closes, i) + SumLosses(closes, i - 1)

\* calc_rsi: entries in 1/Scale2
CalcRSI(closes, period) ==
    IF Len(closes) < period + 1 THEN [i \in 1..Len(closes) |-> None]
    ELSE LET first == [avg_gain |-> RoundDiv(SumGains(closes, period + 1) * AvgScale, period),
                       avg_loss |-> RoundDiv(SumLosses(closes, period + 1) * AvgScale, period)]
             averages == RsiFrom(closes, period, <<first>>)
         IN [i \in 1..Len(closes) |->
                IF i <= period THEN None
                ELSE Some(RsiValue(averages[i - period].avg_gain, averages[i - period].avg_loss))]

\* the integer square root, rounded to the nearest integer
RECURSIVE SqrtBetween(_, _, _)
SqrtBetween(n, lo, hi) ==
    IF lo = hi THEN lo
    ELSE LET mid == (lo + hi + 1) \div 2
         IN IF mid * mid <= n THEN SqrtBetween(n, mid, hi) ELSE SqrtBetween(n, lo, mid - 1)

SqrtRound(n) ==
    LET r == SqrtBetween(n, 0, 46340)
    IN IF n - r * r > r THEN r + 1 ELSE r

\* calc_boll(closes, period=20, k=2): with whole closes mid = sum / 20 is exact at
\* 4 decimals and c - mid = (20 * c - sum) / 20, so
\*   k * std * Scale4 = sqrt(k^2 * Scale4^2 / 20^3 * sum of (20 * c - sum)^2)
RECURSIVE SumSquares(_, _, _, _)
SumSquares(closes, from, to, total) ==
    IF from > to THEN 0
    ELSE (20 * closes[to] - total) * (20 * closes[to] - total)
         + SumSquares(closes, from, to - 1, total)

BollWidth(closes, i) ==
    LET start == IF i - 20 + 1 > 1 THEN i - 20 + 1 ELSE 1
    IN SqrtRound(((2 * 2 * Scale4 * Scale4) \div (20 * 20 * 20))
                 * SumSquares(closes, start, i, SumRange(closes, start, i)))

CalcBoll(closes) ==
    LET mid == CalcMA(closes, 20)
    IN [mid |-> mid,
        upper |-> [i \in 1..Len(closes) |->
                      IF mid[i] = None THEN None
                      ELSE Some(Val(mid[i]) + BollWidth(closes, i))],
        lower |-> [i \in 1..Len(closes) |->
                      IF mid[i] = None THEN None
                      ELSE Some(Val(mid[i]) - BollWidth(closes, i))]]

-----------------------------------------------------------------------------
(* backtest.py : detect_signals_for_day, and technical_old.py : analyze     *)
(*                                                                         *)
(* backtest.py calls the indicators as technical.calc_ma, technical.calc_  *)
(* macd, ...: the functions of the hand-rolled module, technical_old.py.   *)
(* Signal names are written in English:                                    *)
(*   golden cross = 金叉, death cross = 死叉, oversold zone = 超卖区,         *)
(*   overbought zone = 超买区, low golden cross = 低位金叉, high death       *)
(*   cross = 高位死叉, touch lower/upper Bollinger band = 触及布林下轨/上轨,   *)
(*   MA bullish/bearish alignment = 均线多头排列/均线空头排列.                 *)

\* the warm-up: detect_signals_for_day returns [] below it, analyze refuses fewer bars
WarmUpDays == 30
MinLiveBars == 30

Closes(klines) == [i \in 1..Len(klines) |-> klines[i].close]

\* line 27: current_klines = klines[:day_idx + 1]
MutWholeSeries(klines, day_idx) == klines

CurrentKlines(klines, day_idx) == SubSeq(klines, 1, day_idx + 1)

\* line 23: too little history for the indicators
MutWarmUpLonger(day_idx) == day_idx < WarmUpDays + 1

InWarmUp(day_idx) == day_idx < WarmUpDays

\* the last and the last but one entry: xs[-1], xs[-2]
Last1(xs) == xs[Len(xs)]
Last2(xs) == xs[Len(xs) - 1]

\* lines 53-57: the MA5/20 cross rule
Ma520Rule(ma5, ma20) ==
    IF Len(ma5) >= 2 /\ Len(ma20) >= 2 /\ Truthy(Last1(ma5)) /\ Truthy(Last1(ma20))
       /\ Truthy(Last2(ma5)) /\ Truthy(Last2(ma20))
    THEN IF Val(Last2(ma5)) <= Val(Last2(ma20)) /\ Val(Last1(ma5)) > Val(Last1(ma20))
         THEN << <<"MA5/20 golden cross", "buy", 7>> >>
         ELSE IF Val(Last2(ma5)) >= Val(Last2(ma20))
                 /\ Val(Last1(ma5)) < Val(Last1(ma20))
         THEN << <<"MA5/20 death cross", "sell", 7>> >>
         ELSE <<>>
    ELSE <<>>

\* lines 79-83: the RSI6 extreme rule
Rsi6Rule(rsi6) ==
    IF Truthy(Last1(rsi6)) /\ Val(Last1(rsi6)) < 20 * Scale2
    THEN << <<"RSI6 oversold(<20)", "buy", 6>> >>
    ELSE IF Truthy(Last1(rsi6)) /\ Val(Last1(rsi6)) > 80 * Scale2
    THEN << <<"RSI6 overbought(>80)", "sell", 6>> >>
    ELSE <<>>

\* detect_signals_for_day, lines 46-96, over the bars up to the day
DetectOn(current_klines) ==
    LET closes == Closes(current_klines)
        latest == Last1(current_klines)
        ma5 == CalcMA(closes, 5)
        ma10 == CalcMA(closes, 10)
        ma20 == CalcMA(closes, 20)
        m == CalcMACD(closes)
        dif == m.dif
        dea == m.dea
        kdj == CalcKDJ(current_klines)
        k_vals == kdj.k
        d_vals == kdj.d
        rsi6 == CalcRSI(closes, 6)
        boll == CalcBoll(closes)
        ma510 ==
            IF Len(ma5) >= 2 /\ Len(ma10) >= 2 /\ Truthy(Last1(ma5)) /\ Truthy(Last1(ma10))
               /\ Truthy(Last2(ma5)) /\ Truthy(Last2(ma10))
            THEN IF Val(Last2(ma5)) <= Val(Last2(ma10)) /\ Val(Last1(ma5)) > Val(Last1(ma10))
                 THEN << <<"MA5/10 golden cross", "buy", 6>> >>
                 ELSE IF Val(Last2(ma5)) >= Val(Last2(ma10))
                         /\ Val(Last1(ma5)) < Val(Last1(ma10))
                 THEN << <<"MA5/10 death cross", "sell", 6>> >>
                 ELSE <<>>
            ELSE <<>>
        ma520 == Ma520Rule(ma5, ma20)
        macd ==
            IF Len(dif) >= 2 /\ Len(dea) >= 2
            THEN IF Last2(dif) <= Last2(dea) /\ Last1(dif) > Last1(dea)
                 THEN << <<"MACD golden cross", "buy", 7>> >>
                 ELSE IF Last2(dif) >= Last2(dea) /\ Last1(dif) < Last1(dea)
                 THEN << <<"MACD death cross", "sell", 7>> >>
                 ELSE <<>>
            ELSE <<>>
        kdjzone ==
            IF Last1(k_vals) < 20 * Scale2 /\ Last1(d_vals) < 20 * Scale2
            THEN << <<"KDJ oversold zone", "buy", 5>> >>
            ELSE IF Last1(k_vals) > 80 * Scale2 /\ Last1(d_vals) > 80 * Scale2
            THEN << <<"KDJ overbought zone", "sell", 5>> >>
            ELSE <<>>
        kdjcross ==
            IF Len(k_vals) >= 2 /\ Len(d_vals) >= 2
            THEN IF Last2(k_vals) <= Last2(d_vals) /\ Last1(k_vals) > Last1(d_vals)
                    /\ Last1(k_vals) < 50 * Scale2
                 THEN << <<"KDJ low golden cross", "buy", 7>> >>
                 ELSE IF Last2(k_vals) >= Last2(d_vals) /\ Last1(k_vals) < Last1(d_vals)
                         /\ Last1(k_vals) > 50 * Scale2
                 THEN << <<"KDJ high death cross", "sell", 7>> >>
                 ELSE <<>>
            ELSE <<>>
        rsi == Rsi6Rule(rsi6)
        bollinger ==
            IF Truthy(Last1(boll.lower)) /\ latest.close * Scale4 <= Val(Last1(boll.lower))
            THEN << <<"touch lower Bollinger band", "buy", 5>> >>
            ELSE IF Truthy(Last1(boll.upper))
                    /\ latest.close * Scale4 >= Val(Last1(boll.upper))
            THEN << <<"touch upper Bollinger band", "sell", 5>> >>
            ELSE <<>>
        alignment ==
            IF Truthy(Last1(ma5)) /\ Truthy(Last1(ma10)) /\ Truthy(Last1(ma20))
            THEN IF Val(Last1(ma5)) > Val(Last1(ma10)) /\ Val(Last1(ma10)) > Val(Last1(ma20))
                 THEN << <<"MA bullish alignment", "buy", 8>> >>
                 ELSE IF Val(Last1(ma5)) < Val(Last1(ma10))
                         /\ Val(Last1(ma10)) < Val(Last1(ma20))
                 THEN << <<"MA bearish alignment", "sell", 8>> >>
                 ELSE <<>>
            ELSE <<>>
    IN ma510 \o ma520 \o macd \o kdjzone \o kdjcross \o rsi \o bollinger \o alignment

\* detect_signals_for_day(klines, day_idx): [(signal_name, signal_type, strength), ...]
DetectSignalsForDay(klines, day_idx) ==
    IF InWarmUp(day_idx) THEN <<>>
    ELSE DetectOn(CurrentKlines(klines, day_idx))

Signal(type, name, strength) == [type |-> type, name |-> name, strength |-> strength]

\* analyze, lines 172-276: the signal-detection block over the whole series
AnalyzeSignals(klines) ==
    LET closes == Closes(klines)
        latest == Last1(klines)
        ma5 == CalcMA(closes, 5)
        ma10 == CalcMA(closes, 10)
        ma20 == CalcMA(closes, 20)
        m == CalcMACD(closes)
        dif == m.dif
        dea == m.dea
        kdj == CalcKDJ(klines)
        k_vals == kdj.k
        d_vals == kdj.d
        rsi6 == CalcRSI(closes, 6)
        boll == CalcBoll(closes)
        ma510 ==
            IF Truthy(Last1(ma5)) /\ Truthy(Last1(ma10))
               /\ Truthy(Last2(ma5)) /\ Truthy(Last2(ma10))
            THEN IF Val(Last2(ma5)) <= Val(Last2(ma10)) /\ Val(Last1(ma5)) > Val(Last1(ma10))
                 THEN <<Signal("buy", "MA5/10 golden cross", 6)>>
                 ELSE IF Val(Last2(ma5)) >= Val(Last2(ma10))
                         /\ Val(Last1(ma5)) < Val(Last1(ma10))
                 THEN <<Signal("sell", "MA5/10 death cross", 6)>>
                 ELSE <<>>
            ELSE <<>>
        ma520 ==
            IF Truthy(Last1(ma5)) /\ Truthy(Last1(ma20))
               /\ Truthy(Last2(ma5)) /\ Truthy(Last2(ma20))
            THEN IF Val(Last2(ma5)) <= Val(Last2(ma20)) /\ Val(Last1(ma5)) > Val(Last1(ma20))
                 THEN <<Signal("buy", "MA5/20 golden cross", 7)>>
                 ELSE IF Val(Last2(ma5)) >= Val(Last2(ma20))
                         /\ Val(Last1(ma5)) < Val(Last1(ma20))
                 THEN <<Signal("sell", "MA5/20 death cross", 7)>>
                 ELSE <<>>
            ELSE <<>>
        macd ==
            IF Len(dif) >= 2 /\ Len(dea) >= 2
            THEN IF Last2(dif) <= Last2(dea) /\ Last1(dif) > Last1(dea)
                 THEN <<Signal("buy", "MACD golden cross", 7)>>
                 ELSE IF Last2(dif) >= Last2(dea) /\ Last1(dif) < Last1(dea)
                 THEN <<Signal("sell", "MACD death cross", 7)>>
                 ELSE <<>>
            ELSE <<>>
        kdjzone ==
            IF Last1(k_vals) < 20 * Scale2 /\ Last1(d_vals) < 20 * Scale2
            THEN <<Signal("buy", "KDJ oversold zone", 5)>>
            ELSE IF Last1(k_vals) > 80 * Scale2 /\ Last1(d_vals) > 80 * Scale2
            THEN <<Signal("sell", "KDJ overbought zone", 5)>>
            ELSE <<>>
        kdjcross ==
            IF Len(k_vals) >= 2 /\ Len(d_vals) >= 2
            THEN IF Last2(k_vals) <= Last2(d_vals) /\ Last1(k_vals) > Last1(d_vals)
                    /\ Last1(k_vals) < 50 * Scale2
                 THEN <<Signal("buy", "KDJ low golden cross", 7)>>
                 ELSE IF Last2(k_vals) >= Last2(d_vals) /\ Last1(k_vals) < Last1(d_vals)
                         /\ Last1(k_vals) > 50 * Scale2
                 THEN <<Signal("sell", "KDJ high death cross", 7)>>
                 ELSE <<>>
            ELSE <<>>
        rsi ==
            IF Truthy(Last1(rsi6)) /\ Val(Last1(rsi6)) < 20 * Scale2
            THEN <<Signal("buy", "RSI6 oversold(<20)", 6)>>
            ELSE IF Truthy(Last1(rsi6)) /\ Val(Last1(rsi6)) > 80 * Scale2
            THEN <<Signal("sell", "RSI6 overbought(>80)", 6)>>
            ELSE <<>>
        bollinger ==
            IF Truthy(Last1(boll.lower)) /\ latest.close * Scale4 <= Val(Last1(boll.lower))
            THEN <<Signal("buy", "touch lower Bollinger band", 5)>>
            ELSE IF Truthy(Last1(boll.upper))
                    /\ latest.close * Scale4 >= Val(Last1(boll.upper))
            THEN <<Signal("sell", "touch upper Bollinger band", 5)>>
            ELSE <<>>
        alignment ==
            IF Truthy(Last1(ma5)) /\ Truthy(Last1(ma10)) /\ Truthy(Last1(ma20))
            THEN IF Val(Last1(ma5)) > Val(Last1(ma10)) /\ Val(Last1(ma10)) > Val(Last1(ma20))
                 THEN <<Signal("buy", "MA bullish alignment", 8)>>
                 ELSE IF Val(Last1(ma5)) < Val(Last1(ma10))
                         /\ Val(Last1(ma10)) < Val(Last1(ma20))
                 THEN <<Signal("sell", "MA bearish alignment", 8)>>
                 ELSE <<>>
            ELSE <<>>
    IN ma510 \o ma520 \o macd \o kdjzone \o kdjcross \o rsi \o bollinger \o alignment

\* analyze(code) once the klines are fetched: lines 169-170, then the signals
Analyze(klines) ==
    IF Len(klines) < MinLiveBars THEN [status |-> "error", signals |-> <<>>]
    ELSE [status |-> "ok", signals |-> AnalyzeSignals(klines)]

-----------------------------------------------------------------------------
(* The two detections over one stock's bars as they arrive                 *)
(*                                                                         *)
(* A bar keeps the fields the detections read: close, high and low.  The   *)
(* series starts as one of four shapes of BaseLen bars and grows by one    *)
(* fetched bar at a time; closes stay within 10..14.                       *)

Bar(close, high, low) == [close |-> close, high |-> high, low |-> low]

Swing == <<0, 1, 2, 1, 0, -1, -2, -1>>

Rise == [i \in 1..BaseLen |-> LET c == 10 + (4 * (i - 1)) \div (BaseLen - 1) IN Bar(c, c + 1, c - 1)]
Fall == [i \in 1..BaseLen |-> LET c == 14 - (4 * (i - 1)) \div (BaseLen - 1) IN Bar(c, c + 1, c - 1)]
Wave == [i \in 1..BaseLen |-> LET c == 12 + Swing[((i - 1) % 8) + 1] IN Bar(c, c + 1, c - 1)]
Flat == [i \in 1..BaseLen |-> Bar(12, 13, 11)]

BaseSeries == {Rise, Fall, Wave, Flat}
FetchedBars == {Bar(14, 14, 13), Bar(10, 11, 10)}

InitScanner ==
    /\ fetched \in BaseSeries
    /\ scanned = NoScan
    /\ live = NoAnalysis
    /\ StatsIdle
    /\ CrossIdle
    /\ LibIdle
    /\ portfolio = NewPortfolio(0)
    /\ call = NoCall
    /\ ret = "none"
    /\ ncalls = 0
    /\ EngineIdle
    /\ LedgerIdle

\* fetch_daily_klines returns one more bar than the last time
FetchBar(b) ==
    /\ Len(fetched) < BaseLen + MaxExtraBars
    /\ fetched' = Append(fetched, b)
    /\ UNCHANGED <<scanned, live>>
    /\ UNCHANGED statsVars
    /\ UNCHANGED crossVars
    /\ UNCHANGED libVars
    /\ UNCHANGED portfolioVars
    /\ UNCHANGED engineVars
    /\ UNCHANGED ledgerVars

\* detect_signals_for_day(klines, day_idx) is called for one of the last two days
Scan ==
    /\ \E day_idx \in {Len(fetched) - 2, Len(fetched) - 1} :
          scanned' = [status |-> "called", nbars |-> Len(fetched), day_idx |-> day_idx,
                      signals |-> DetectSignalsForDay(fetched, day_idx)]
    /\ UNCHANGED <<fetched, live>>
    /\ UNCHANGED statsVars
    /\ UNCHANGED crossVars
    /\ UNCHANGED libVars
    /\ UNCHANGED portfolioVars
    /\ UNCHANGED engineVars
    /\ UNCHANGED ledgerVars

\* analyze is called on the bars fetched so far
LiveAnalyze ==
    /\ LET r == Analyze(fetched)
       IN live' = [status |-> r.status, nbars |-> Len(fetched), signals |-> r.signals]
    /\ UNCHANGED <<fetched, scanned>>
    /\ UNCHANGED statsVars
    /\ UNCHANGED crossVars
    /\ UNCHANGED libVars
    /\ UNCHANGED portfolioVars
    /\ UNCHANGED engineVars
    /\ UNCHANGED ledgerVars

NextScanner ==
    \/ \E b \in FetchedBars : FetchBar(b)
    \/ Scan
    \/ LiveAnalyze

SpecScanner == InitScanner /\ [][NextScanner]_vars

-----------------------------------------------------------------------------
(* Claims about the two detections *)

\* the (name, direction, strength) events of analyze's signal records
Events(sigs) == [i \in 1..Len(sigs) |-> <<sigs[i].name, sigs[i].type, sigs[i].strength>>]

\* both detections have run on the same bars, the scan at the last bar index
ScannedLastBarAndAnalyzed ==
    /\ scanned.status = "called"
    /\ live.status = "ok"
    /\ scanned.nbars = live.nbars
    /\ scanned.day_idx = scanned.nbars - 1

\* C9 as stated: for every series analyze accepts (30 bars or more),
\* detect_signals_for_day at the last bar index returns the events of
\* analyze's signal block, in the same order.
C9_ScanEqualsLive ==
    ScannedLastBarAndAnalyzed => scanned.signals = Events(live.signals)

\* C9 for series of at least 31 bars: detect_signals_for_day at the last bar
\* index returns the same (name, direction, strength) events, in the same
\* order, as analyze's signal block.
C9_ScanEqualsLiveFrom31Bars ==
    (ScannedLastBarAndAnalyzed /\ scanned.nbars >= 31)
        => scanned.signals = Events(live.signals)

C9_Witness ==
    /\ ScannedLastBarAndAnalyzed
    /\ scanned.nbars >= 31
    /\ Len(scanned.signals) >= 2
    /\ scanned.signals = Events(live.signals)

\* the RSI6 value at the scanned bar: None, or a count of 1/Scale2
ScannedRsi6 == Last1(CalcRSI(Closes(SubSeq(fetched, 1, scanned.day_idx + 1)), 6))

HasEvent(events, name, type, strength) ==
    \E k \in 1..Len(events) : events[k] = <<name, type, strength>>

\* C14: at every bar past the warm-up where rsi6 is available, rsi6 < 20 puts
\* the RSI6-oversold buy event of strength 6 among the detected events and
\* rsi6 > 80 the RSI6-overbought sell event of strength 6.
C14_Rsi6ExtremeFires ==
    (scanned.status = "called" /\ scanned.day_idx >= 30 /\ ScannedRsi6 # None) =>
        /\ Val(ScannedRsi6) < 20 * 100 =>
              HasEvent(scanned.signals, "RSI6 oversold(<20)", "buy", 6)
        /\ Val(ScannedRsi6) > 80 * 100 =>
              HasEvent(scanned.signals, "RSI6 overbought(>80)", "sell", 6)

\* C10: the events detect_signals_for_day reported for bar i are the events it
\* reports for bar i on the bars 0..i alone and on the series as it has grown
\* since: later bars do not change them.  (Two series that agree on bars 0..i
\* both agree with their common prefix, hence with each other.)
C10_NoLookAhead ==
    scanned.status = "called" =>
        /\ DetectSignalsForDay(fetched, scanned.day_idx) = scanned.signals
        /\ DetectSignalsForDay(SubSeq(fetched, 1, scanned.day_idx + 1), scanned.day_idx)
               = scanned.signals

\* events were reported for a bar past the warm-up, and bars that arrived later
\* fire other events on their own day
C10_Witness ==
    /\ scanned.status = "called"
    /\ scanned.day_idx >= 30
    /\ scanned.signals # <<>>
    /\ Len(fetched) > scanned.nbars
    /\ DetectSignalsForDay(fetched, Len(fetched) - 1) # scanned.signals
    /\ DetectSignalsForDay(fetched, scanned.day_idx) = scanned.signals

-----------------------------------------------------------------------------
(* backtest.py : calculate_returns and backtest_stock                      *)
(*                                                                         *)
(* backtest_stock scans one stock's history day by day; one pass of its    *)
(* loop is one step.  signal_filter is None.  A return rate is an exact    *)
(* fraction, and so are win_rate, avg_return, max_profit and max_loss.     *)
(* The dict signal_stats is a sequence in insertion order, the order in    *)
(* which Python iterates it.  overall_score, which needs the mean of the   *)
(* win rates as a float, is left out of the report.                        *)

MinHistoryBars == 50
FirstScanDay == 30
BestMinCount == 3
BestPeriod == 5
Periods == {1, 3, 5, 10, 20}

FracAdd(a, b) == Frac(a.num * b.den + b.num * a.den, a.den * b.den)
FracLess(a, b) == a.num * b.den < b.num * a.den

\* calculate_returns(klines, trigger_idx): a return rate or None per period
CalculateReturns(klines, trigger_idx) ==
    LET trigger_price == klines[trigger_idx + 1].close
    IN [period \in Periods |->
           LET future_idx == trigger_idx + period
           IN IF future_idx < Len(klines)
              THEN Some(Frac(klines[future_idx + 1].close - trigger_price, trigger_price))
              ELSE None]

\* lines 159-169: a buy wins on a positive return, a sell on a negative one
MutWinIsPositive(signal_type, return_rate) == return_rate.num > 0

IsWin(signal_type, return_rate) ==
    IF signal_type = "buy" THEN return_rate.num > 0 ELSE return_rate.num < 0

\* lines 139-150: the record a signal name gets the first time it fires
NewSignalStats(signal_name, signal_type) ==
    [name |-> signal_name, type |-> signal_type, count |-> 0,
     periods |-> [period \in Periods |-> [wins |-> 0, total |-> 0, returns |-> <<>>]]]

HasStats(stats, signal_name) == \E i \in 1..Len(stats) : stats[i].name = signal_name
StatsIndex(stats, signal_name) == CHOOSE i \in 1..Len(stats) : stats[i].name = signal_name

\* the total counted before the return is looked at
MutCountsUnresolved(period_stats, signal_type, return_rate) ==
    IF return_rate = None
    THEN [wins |-> period_stats.wins, total |-> period_stats.total + 1,
          returns |-> period_stats.returns]
    ELSE [wins |-> period_stats.wins + (IF IsWin(signal_type, Val(return_rate)) THEN 1 ELSE 0),
          total |-> period_stats.total + 1,
          returns |-> Append(period_stats.returns, Val(return_rate))]

\* lines 155-169: one period's statistics after a firing with the given return
CountReturn(period_stats, signal_type, return_rate) ==
    IF return_rate = None THEN period_stats
    ELSE [wins |-> period_stats.wins + (IF IsWin(signal_type, Val(return_rate)) THEN 1 ELSE 0),
          total |-> period_stats.total + 1,
          returns |-> Append(period_stats.returns, Val(return_rate))]

\* lines 133-169: the body of the inner loop for one event of the day
AddFiring(stats, klines, day_idx, event) ==
    LET signal_name == event[1]
        signal_type == event[2]
        known == IF HasStats(stats, signal_name) THEN stats
                 ELSE Append(stats, NewSignalStats(signal_name, signal_type))
        i == StatsIndex(known, signal_name)
        returns == CalculateReturns(klines, day_idx)
    IN [known EXCEPT ![i] =
           [name |-> known[i].name, type |-> known[i].type, count |-> known[i].count + 1,
            periods |-> [period \in Periods |->
                            CountReturn(known[i].periods[period], signal_type, returns[period])]]]

RECURSIVE AddFirings(_, _, _, _, _)
AddFirings(stats, klines, day_idx, events, k) ==
    IF k > Len(events) THEN stats
    ELSE AddFirings(AddFiring(stats, klines, day_idx, events[k]), klines, day_idx, events, k + 1)

RECURSIVE SumFracs(_, _)
SumFracs(returns, k) ==
    IF k = 0 THEN Frac(0, 1) ELSE FracAdd(SumFracs(returns, k - 1), returns[k])

MaxFrac(returns) ==
    returns[CHOOSE i \in 1..Len(returns) : \A j \in 1..Len(returns) : ~FracLess(returns[i], returns[j])]
MinFrac(returns) ==
    returns[CHOOSE i \in 1..Len(returns) : \A j \in 1..Len(returns) : ~FracLess(returns[j], returns[i])]

\* lines 171-183: win rate and average return of one period
WithRates(period_stats) ==
    IF period_stats.total > 0
    THEN [wins |-> period_stats.wins, total |-> period_stats.total,
          returns |-> period_stats.returns,
          win_rate |-> Frac(period_stats.wins, period_stats.total),
          avg_return |-> LET s == SumFracs(period_stats.returns, Len(period_stats.returns))
                         IN Frac(s.num, s.den * Len(period_stats.returns)),
          max_profit |-> MaxFrac(period_stats.returns),
          max_loss |-> MinFrac(period_stats.returns)]
    ELSE [wins |-> period_stats.wins, total |-> period_stats.total,
          returns |-> period_stats.returns,
          win_rate |-> Frac(0, 1), avg_return |-> Frac(0, 1),
          max_profit |-> Frac(0, 1), max_loss |-> Frac(0, 1)]

FinalStats(stats) ==
    [i \in 1..Len(stats) |->
        [name |-> stats[i].name, type |-> stats[i].type, count |-> stats[i].count,
         periods |-> [period \in Periods |-> WithRates(stats[i].periods[period])]]]

\* line 194: score = stats["periods"]["5d"]["win_rate"] * 100
Score(stats) ==
    Frac(stats.periods[BestPeriod].win_rate.num * 100, stats.periods[BestPeriod].win_rate.den)

\* lines 192-199: does this signal replace the best one of its type found so far
BeatsBest(stats, signal_type, best_score) ==
    /\ stats.count >= BestMinCount
    /\ stats.type = signal_type
    /\ FracLess(best_score, Score(stats))

\* lines 186-200: the best signal of one type, None or a name
RECURSIVE BestSignal(_, _, _, _, _)
BestSignal(stats, signal_type, k, best_signal, best_score) ==
    IF k > Len(stats) THEN best_signal
    ELSE IF BeatsBest(stats[k], signal_type, best_score)
         THEN BestSignal(stats, signal_type, k + 1, Some(stats[k].name), Score(stats[k]))
         ELSE BestSignal(stats, signal_type, k + 1, best_signal, best_score)

\* the histories: triangle waves of half-period p and phase ph, closes within 10..14
Triangle(i, p, amp) ==
    LET x == i % (2 * p)
        y == IF x <= p THEN x ELSE 2 * p - x
    IN (y * amp) \div p

History(p, ph) ==
    [i \in 1..HistoryLen |-> LET c == 10 + Triangle(i - 1 + ph, p, 4) IN Bar(c, c + 1, c - 1)]

HistoryShapes == {<<3, 1>>, <<4, 0>>, <<5, 5>>, <<8, 0>>, <<12, 18>>, <<14, 27>>}
Histories == {History(s[1], s[2]) : s \in HistoryShapes} \cup {Flat}

InitReliability ==
    /\ fetched \in Histories
    /\ scanned = NoScan
    /\ live = NoAnalysis
    /\ StatsIdle
    /\ CrossIdle
    /\ LibIdle
    /\ portfolio = NewPortfolio(0)
    /\ call = NoCall
    /\ ret = "none"
    /\ ncalls = 0
    /\ EngineIdle
    /\ LedgerIdle

\* backtest_stock is called: lines 118-127
StartBacktest ==
    /\ scan_pc = "idle"
    /\ IF Len(fetched) < MinHistoryBars
       THEN /\ report' = [status |-> "error"]
            /\ scan_pc' = "done"
            /\ UNCHANGED scan_day
       ELSE /\ scan_pc' = "scanning"
            /\ scan_day' = FirstScanDay
            /\ UNCHANGED report
    /\ signal_stats' = <<>>
    /\ fired' = <<>>
    /\ UNCHANGED <<fetched, scanned, live>>
    /\ UNCHANGED crossVars
    /\ UNCHANGED libVars
    /\ UNCHANGED portfolioVars
    /\ UNCHANGED engineVars
    /\ UNCHANGED ledgerVars

\* one pass of the loop over day_idx, lines 130-169
ScanDay ==
    /\ scan_pc = "scanning"
    /\ scan_day < Len(fetched)
    /\ LET events == DetectSignalsForDay(fetched, scan_day)
       IN /\ signal_stats' = AddFirings(signal_stats, fetched, scan_day, events, 1)
          /\ fired' = fired \o [k \in 1..Len(events) |->
                                   [day |-> scan_day, name |-> events[k][1], type |-> events[k][2]]]
    /\ scan_day' = scan_day + 1
    /\ UNCHANGED <<fetched, scanned, live, scan_pc, report>>
    /\ UNCHANGED crossVars
    /\ UNCHANGED libVars
    /\ UNCHANGED portfolioVars
    /\ UNCHANGED engineVars
    /\ UNCHANGED ledgerVars

\* after the loop, lines 171-226
FinishBacktest ==
    /\ scan_pc = "scanning"
    /\ scan_day = Len(fetched)
    /\ LET final == FinalStats(signal_stats)
       IN /\ signal_stats' = final
          /\ report' = [status |-> "ok",
                        days |-> Len(fetched),
                        signals |-> final,
                        best_buy_signal |-> BestSignal(final, "buy", 1, None, Frac(0, 1)),
                        best_sell_signal |-> BestSignal(final, "sell", 1, None, Frac(0, 1))]
    /\ scan_pc' = "done"
    /\ UNCHANGED <<fetched, scanned, live, scan_day, fired>>
    /\ UNCHANGED crossVars
    /\ UNCHANGED libVars
    /\ UNCHANGED portfolioVars
    /\ UNCHANGED engineVars
    /\ UNCHANGED ledgerVars

NextReliability == StartBacktest \/ ScanDay \/ FinishBacktest

SpecReliability == InitReliability /\ [][NextReliability]_vars

-----------------------------------------------------------------------------
(* The MA5/20 cross rule over a whole series: bar by bar as                *)
(* detect_signals_for_day evaluates it (backtest.py lines 27-33, 53-57),   *)
(* and in one call as stock_analysis/signals.py golden_death_cross does.   *)
(* A pandas Series is a sequence and NaN is None.                          *)

\* signals.py lines 46-69
GoldenDeathCross(fast_ma, slow_ma, lookback_period) ==
    IF Len(fast_ma) # Len(slow_ma) THEN [status |-> "ValueError", signals |-> <<>>]
    ELSE IF lookback_period <= 0 THEN [status |-> "ValueError", signals |-> <<>>]
    ELSE IF Len(fast_ma) < lookback_period + 1 THEN [status |-> "ValueError", signals |-> <<>>]
    ELSE LET current_diff == [i \in 1..Len(fast_ma) |->
                                 IF fast_ma[i] = None \/ slow_ma[i] = None THEN None
                                 ELSE Some(Val(fast_ma[i]) - Val(slow_ma[i]))]
             previous_diff == [i \in 1..Len(fast_ma) |->
                                  IF i = 1 THEN None ELSE current_diff[i - 1]]
             golden_cross == [i \in 1..Len(fast_ma) |->
                                 IF /\ current_diff[i] # None /\ Val(current_diff[i]) > 0
                                    /\ previous_diff[i] # None /\ Val(previous_diff[i]) <= 0
                                 THEN 1 ELSE 0]
             death_cross == [i \in 1..Len(fast_ma) |->
                                IF /\ current_diff[i] # None /\ Val(current_diff[i]) < 0
                                   /\ previous_diff[i] # None /\ Val(previous_diff[i]) >= 0
                                THEN -1 ELSE 0]
         IN [status |-> "ok",
             signals |-> [i \in 1..Len(fast_ma) |-> golden_cross[i] + death_cross[i]]]

\* the series: a climb by one from 100, a climb by two, a valley and a ridge
Climb(step) == [i \in 1..CrossLen |-> LET c == 100 + step * (i - 1) IN Bar(c, c + 1, c - 1)]
Valley == [i \in 1..CrossLen |->
              LET c == IF 2 * i <= CrossLen THEN 160 - i ELSE 160 - CrossLen + i
              IN Bar(c, c + 1, c - 1)]
Ridge == [i \in 1..CrossLen |->
             LET c == IF 2 * i <= CrossLen THEN 100 + i ELSE 100 + CrossLen - i
             IN Bar(c, c + 1, c - 1)]
CrossSeries == {Climb(1), Climb(2), Valley, Ridge}

InitCross ==
    /\ fetched \in CrossSeries
    /\ scanned = NoScan
    /\ live = NoAnalysis
    /\ StatsIdle
    /\ CrossIdle
    /\ LibIdle
    /\ portfolio = NewPortfolio(0)
    /\ call = NoCall
    /\ ret = "none"
    /\ ncalls = 0
    /\ EngineIdle
    /\ LedgerIdle

\* the rule at the next bar, on the bars up to it
EvaluateBar ==
    /\ cross_day < Len(fetched)
    /\ LET closes == Closes(CurrentKlines(fetched, cross_day))
           events == Ma520Rule(CalcMA(closes, 5), CalcMA(closes, 20))
       IN crosses' = crosses \o [k \in 1..Len(events) |->
                                    [day |-> cross_day, name |-> events[k][1],
                                     type |-> events[k][2], strength |-> events[k][3]]]
    /\ cross_day' = cross_day + 1
    /\ UNCHANGED <<fetched, scanned, live, crossed>>
    /\ UNCHANGED statsVars
    /\ UNCHANGED libVars
    /\ UNCHANGED portfolioVars
    /\ UNCHANGED engineVars
    /\ UNCHANGED ledgerVars

\* golden_death_cross(ma5, ma20) over the whole series
CrossWholeSeries ==
    /\ crossed = NoCrosses
    /\ LET closes == Closes(fetched)
       IN crossed' = GoldenDeathCross(CalcMA(closes, 5), CalcMA(closes, 20), 5)
    /\ UNCHANGED <<fetched, scanned, live, cross_day, crosses>>
    /\ UNCHANGED statsVars
    /\ UNCHANGED libVars
    /\ UNCHANGED portfolioVars
    /\ UNCHANGED engineVars
    /\ UNCHANGED ledgerVars

NextCross == EvaluateBar \/ CrossWholeSeries

SpecCross == InitCross /\ [][NextCross]_vars

\* the 60 bars with closes 100, 101, ..., 159
IsClimb100To159 == Closes(fetched) = [i \in 1..60 |-> 99 + i]

StrictlyIncreasing(closes) == \A i \in 2..Len(closes) : closes[i - 1] < closes[i]

GoldenCrossDays == {k \in 1..Len(crosses) : crosses[k].name = "MA5/20 golden cross"}

\* C13 as stated: on the closes 100..159 the rule evaluated at every bar yields
\* exactly one MA5/20 golden cross buy event, and so does golden_death_cross.
C13_ExactlyOneGoldenCross ==
    (IsClimb100To159 /\ cross_day = Len(fetched) /\ crossed.status = "ok") =>
        /\ Cardinality(GoldenCrossDays) = 1
        /\ Cardinality({i \in 1..Len(crossed.signals) : crossed.signals[i] = 1}) = 1

\* C13 for strictly increasing closes (100..159 among them): the rule evaluated
\* at every bar yields no MA5/20 cross event at all, and golden_death_cross
\* returns 0 at every bar; MA5 is above MA20 wherever both are available.
C13_NoCrossOnClimb ==
    StrictlyIncreasing(Closes(fetched)) =>
        /\ crosses = <<>>
        /\ crossed.status = "ok" => \A i \in 1..Len(crossed.signals) : crossed.signals[i] = 0

\* the closes 100..159 evaluated at every bar and as a whole, both averages available
C13_Witness ==
    /\ IsClimb100To159
    /\ cross_day = Len(fetched)
    /\ crossed.status = "ok"
    /\ crosses = <<>>
    /\ \A i \in 20..60 :
          Val(CalcMA(Closes(fetched), 5)[i]) > Val(CalcMA(Closes(fetched), 20)[i])

-----------------------------------------------------------------------------
(* stock_analysis/signals.py : generate_trading_signals                     *)
(*                                                                         *)
(* A DataFrame is [columns, rows]: the set of its column names and one     *)
(* record per index label.  A composite_score is a count of 1/Scale2, or   *)
(* None for NaN; a comparison with NaN is False, as in pandas.             *)

MaxRows == 2

RequiredCols == {"ma_signal", "rsi_signal", "composite_score"}

StrategyNames == {"conservative", "moderate", "aggressive"}

\* strategy_params (lines 386-390), thresholds in 1/Scale2
StrategyParams(strategy) ==
    CASE strategy = "conservative" -> [buy_threshold |-> 60, sell_threshold |-> -60]
      [] strategy = "moderate" -> [buy_threshold |-> 40, sell_threshold |-> -40]
      [] strategy = "aggressive" -> [buy_threshold |-> 20, sell_threshold |-> -20]

MutBuyIgnoresRsi(row, params) ==
    /\ row.ma_signal = 1
    /\ row.composite_score # None
    /\ Val(row.composite_score) >= params.buy_threshold

\* buy_condition (lines 398-402) at one row
BuyCondition(row, params) ==
    /\ row.ma_signal = 1
    /\ row.rsi_signal # -1
    /\ row.composite_score # None
    /\ Val(row.composite_score) >= params.buy_threshold

\* sell_condition (lines 404-408) at one row
SellCondition(row, params) ==
    /\ row.ma_signal = -1
    /\ row.rsi_signal # 1
    /\ row.composite_score # None
    /\ Val(row.composite_score) <= params.sell_threshold

\* generate_trading_signals(data, strategy); the sell assignment comes last
GenerateTradingSignals(frame, strategy) ==
    IF RequiredCols \ frame.columns # {} THEN [status |-> "ValueError"]
    ELSE IF strategy \notin StrategyNames THEN [status |-> "ValueError"]
    ELSE LET params == StrategyParams(strategy)
         IN [status |-> "returned",
             value |-> [k \in 1..Len(frame.rows) |->
                           IF SellCondition(frame.rows[k], params) THEN -1
                           ELSE IF BuyCondition(frame.rows[k], params) THEN 1
                           ELSE 0]]

SignalRows ==
    [ma_signal : {-1, 0, 1}, rsi_signal : {-1, 0, 1},
     composite_score : {None} \cup {Some(v) : v \in {-60, -40, -20, 20, 40, 60}}]

SignalFrames ==
    {[columns |-> RequiredCols, rows |-> rows] :
        rows \in UNION {[1..n -> SignalRows] : n \in 0..MaxRows}}
    \cup {[columns |-> {"ma_signal", "rsi_signal"}, rows |-> <<>>]}

OthersIdle ==
    /\ fetched = <<>>
    /\ scanned = NoScan
    /\ live = NoAnalysis
    /\ StatsIdle
    /\ CrossIdle
    /\ portfolio = NewPortfolio(0)
    /\ call = NoCall
    /\ ret = "none"
    /\ ncalls = 0
    /\ EngineIdle

nonLibVars == <<portfolio, call, ret, ncalls, initial_capital, trades, results, ohlcv,
                signal_series, dates, data, signals, position_size, transaction_cost, pc, bar, portfolio_values,
                runs, fetched, scanned, live, scan_pc, scan_day, signal_stats, fired,
                report, cross_day, crosses, crossed>>

InitTrading ==
    /\ \E frame \in SignalFrames, strategy \in StrategyNames \cup {"scalping"} :
          lib_call = [fn |-> "generate_trading_signals", data |-> frame, strategy |-> strategy]
    /\ lib_ret = NoLibReturn
    /\ OthersIdle
    /\ LedgerIdle

CallGenerateTradingSignals ==
    /\ lib_call.fn = "generate_trading_signals"
    /\ lib_ret = NoLibReturn
    /\ lib_ret' = GenerateTradingSignals(lib_call.data, lib_call.strategy)
    /\ UNCHANGED lib_call
    /\ UNCHANGED nonLibVars
    /\ UNCHANGED ledgerVars

NextTrading == CallGenerateTradingSignals

SpecTrading == InitTrading /\ [][NextTrading]_vars

-----------------------------------------------------------------------------
(* stock_analysis/backtest.py : max_drawdown                                *)
(*                                                                         *)
(* A Series of portfolio values is a sequence of whole amounts and the     *)
(* drawdown an exact fraction.                                             *)

MaxValues == 3

MutGlobalMax(values, i) ==
    CHOOSE m \in {values[j] : j \in 1..Len(values)} :
        \A j \in 1..Len(values) : values[j] <= m

\* running_max = portfolio_values.expanding().max() at position i (line 250)
RunningMax(values, i) ==
    CHOOSE m \in {values[j] : j \in 1..i} : \A j \in 1..i : values[j] <= m

\* max_drawdown(portfolio_values), lines 246-256
MaxDrawdown(values) ==
    IF Len(values) < 2 THEN Frac(0, 1)
    ELSE LET drawdown == [i \in 1..Len(values) |->
                             Frac(values[i] - RunningMax(values, i), RunningMax(values, i))]
         IN MinFrac(drawdown)

ValueLevels == {90, 100, 110, 120}

ValueSeries == UNION {[1..n -> ValueLevels] : n \in 0..MaxValues}

InitDrawdown ==
    /\ \E values \in ValueSeries : lib_call = [fn |-> "max_drawdown", values |-> values]
    /\ lib_ret = NoLibReturn
    /\ OthersIdle
    /\ LedgerIdle

CallMaxDrawdown ==
    /\ lib_call.fn = "max_drawdown"
    /\ lib_ret = NoLibReturn
    /\ lib_ret' = [status |-> "returned", value |-> MaxDrawdown(lib_call.values)]
    /\ UNCHANGED lib_call
    /\ UNCHANGED nonLibVars
    /\ UNCHANGED ledgerVars

NextDrawdown == CallMaxDrawdown

SpecDrawdown == InitDrawdown /\ [][NextDrawdown]_vars

-----------------------------------------------------------------------------
(* stock_analysis/indicators.py and signals.py : combined_signals           *)
(*                                                                         *)
(* A close is a whole number of price units.  A float the library          *)
(* computes is kept to 3 decimals, as an integer count of 1/Milli, each    *)
(* operation rounding to the nearest count; an RSI is a count of 1/Scale2  *)
(* and its two averages counts of 1/AvgScale.  NaN is None.                *)

Milli == 1000

\* n / d as a count of 1/Milli (d > 0)
MilliDiv(n, d) == (n \div d) * Milli + RoundDiv((n % d) * Milli, d)

\* indicators.moving_average: data.rolling(window).mean()
MovingAverage(series, window) ==
    [i \in 1..Len(series) |->
        IF i < window THEN None
        ELSE Some(MilliDiv(SumRange(series, i - window + 1, i), window))]

\* the weights of ewm are kept to 5 decimals
WeightScale == 100000

\* n * WeightScale / d rounded (d > 0), in two steps that stay in 32 bits
WeightDiv(n, d) ==
    ((n * (WeightScale \div Milli)) \div d) * Milli
    + RoundDiv(((n * (WeightScale \div Milli)) % d) * Milli, d)

\* data.ewm(span=window).mean(): the weighted mean with weights (1 - alpha)^k,
\* alpha = 2 / (window + 1), computed as mean + (value - mean) / den, where den
\* is the sum of the weights up to the position; sums[k] holds both at k
RECURSIVE EwmFrom(_, _, _)
EwmFrom(values, window, sums) ==
    IF Len(sums) = Len(values) THEN sums
    ELSE LET prev == Last(sums)
             den == WeightScale + RoundDiv(prev.den * (window - 1), window + 1)
         IN EwmFrom(values, window, Append(sums,
                [mean |-> prev.mean + WeightDiv(values[Len(sums) + 1] - prev.mean, den),
                 den |-> den]))

\* indicators.ema over values in 1/Milli
Ema(values, window) ==
    IF values = <<>> THEN <<>>
    ELSE LET sums == EwmFrom(values, window, <<[mean |-> values[1], den |-> WeightScale]>>)
         IN [i \in 1..Len(values) |-> sums[i].mean]

\* indicators.macd, lines 132-139
Macd(series, fast, slow, signal) ==
    LET scaled == [i \in 1..Len(series) |-> series[i] * Milli]
        ema_fast == Ema(scaled, fast)
        ema_slow == Ema(scaled, slow)
        macd_line == [i \in 1..Len(series) |-> ema_fast[i] - ema_slow[i]]
        signal_line == Ema(macd_line, signal)
    IN [macd_line |-> macd_line, signal_line |-> signal_line,
        histogram |-> [i \in 1..Len(series) |-> macd_line[i] - signal_line[i]]]

\* indicators.rsi, lines 175-178: averages[k] holds avg_gain and avg_loss at
\* position window - 1 + k
RECURSIVE WilderFrom(_, _, _)
WilderFrom(series, window, averages) ==
    IF window - 1 + Len(averages) = Len(series) THEN averages
    ELSE LET i == window + Len(averages)
             prev == Last(averages)
         IN WilderFrom(series, window, Append(averages,
                [avg_gain |-> RoundDiv(prev.avg_gain * (window - 1) + Gain(series, i) * AvgScale, window),
                 avg_loss |-> RoundDiv(prev.avg_loss * (window - 1) + Loss(series, i) * AvgScale, window)]))

\* lines 180-181: a zero avg_loss is replaced by 1e-10, which makes the RSI 0
\* for a zero avg_gain and 100 to within 1/Scale2 for any other
LibRsiValue(avg_gain, avg_loss) ==
    IF avg_loss # 0 THEN PercentOf(avg_gain, avg_loss)
    ELSE IF avg_gain = 0 THEN 0
    ELSE 100 * Scale2

\* indicators.rsi: the first change is NaN and counts as 0 (lines 167-172)
Rsi(series, window) ==
    LET first == [avg_gain |-> RoundDiv(SumGains(series, window) * AvgScale, window),
                  avg_loss |-> RoundDiv(SumLosses(series, window) * AvgScale, window)]
        averages == WilderFrom(series, window, <<first>>)
    IN [i \in 1..Len(series) |->
           IF i < window THEN None
           ELSE Some(LibRsiValue(averages[i - window + 1].avg_gain,
                                 averages[i - window + 1].avg_loss))]

RECURSIVE SumOfSquares(_, _, _)
SumOfSquares(xs, from, to) ==
    IF from > to THEN 0 ELSE xs[to] * xs[to] + SumOfSquares(xs, from, to - 1)

\* data.rolling(window).std() at position i: the sample standard deviation,
\* sqrt((window * sum of squares - square of sum) / (window * (window - 1)))
RollingStd(series, window, i) ==
    LET total == SumRange(series, i - window + 1, i)
        spread == window * SumOfSquares(series, i - window + 1, i) - total * total
    IN SqrtRound(((spread * Milli) \div (window * (window - 1))) * Milli)

\* indicators.bollinger_bands, lines 215-220; num_std is a fraction
BollingerBands(series, window, num_std) ==
    LET rolling_mean == MovingAverage(series, window)
        band == [i \in 1..Len(series) |->
                    IF i < window \/ window < 2 THEN None
                    ELSE Some(RoundDiv(RollingStd(series, window, i) * num_std.num, num_std.den))]
    IN [upper |-> [i \in 1..Len(series) |->
                      IF band[i] = None THEN None
                      ELSE Some(Val(rolling_mean[i]) + Val(band[i]))],
        middle |-> rolling_mean,
        lower |-> [i \in 1..Len(series) |->
                      IF band[i] = None THEN None
                      ELSE Some(Val(rolling_mean[i]) - Val(band[i]))]]

\* signals.oversold_overbought with its default levels 70 and 30
OversoldOverbought(rsi) ==
    [i \in 1..Len(rsi) |->
        LET oversold == IF rsi[i] # None /\ Val(rsi[i]) <= 30 * Scale2 THEN 1 ELSE 0
            overbought == IF rsi[i] # None /\ Val(rsi[i]) >= 70 * Scale2 THEN -1 ELSE 0
        IN oversold + overbought]

\* signals.macd_signal, lines 190-200
MacdSignal(macd_line, signal_line) ==
    LET current_diff == [i \in 1..Len(macd_line) |-> macd_line[i] - signal_line[i]]
    IN [i \in 1..Len(macd_line) |->
           LET bullish_cross == IF i > 1 /\ current_diff[i] > 0 /\ current_diff[i - 1] <= 0
                                THEN 1 ELSE 0
               bearish_cross == IF i > 1 /\ current_diff[i] < 0 /\ current_diff[i - 1] >= 0
                                THEN -1 ELSE 0
           IN bullish_cross + bearish_cross]

\* signals.bb_position, lines 235-241: NaN (no band yet, or 0 / 0 on a band
\* of width zero) is filled with 0.5
BbPosition(close, upper_band, lower_band) ==
    [i \in 1..Len(close) |->
        IF upper_band[i] = None \/ lower_band[i] = None THEN Milli \div 2
        ELSE LET bb_width == Val(upper_band[i]) - Val(lower_band[i])
             IN IF bb_width = 0 THEN Milli \div 2
                ELSE RoundDiv((close[i] * Milli - Val(lower_band[i])) * Milli, bb_width)]

TrendWindow == 20

\* signals.trend_strength, lines 151-154: ma.pct_change() * 100
TrendStrength(series, window) ==
    LET ma == MovingAverage(series, window)
    IN [i \in 1..Len(series) |->
           IF i = 1 \/ ma[i] = None THEN None
           ELSE IF ma[i - 1] = None THEN None
           ELSE Some(RoundDiv((Val(ma[i]) - Val(ma[i - 1])) * 100 * Milli, Val(ma[i - 1])))]

Clip(x, lo, hi) == IF x < lo THEN lo ELSE IF x > hi THEN hi ELSE x

\* lines 336-344
CompositeScore(ma_signal, rsi_signal, macd_signal, bb_position, trend_strength) ==
    IF trend_strength = None THEN None
    ELSE Some(RoundDiv((ma_signal + rsi_signal + macd_signal) * Milli
                       + (bb_position - Milli \div 2) * 2
                       + Clip(RoundDiv(Val(trend_strength), 10), -Milli, Milli), 5))

CombinedCols == {"close", "high", "low", "volume"}

\* the length and period checks of the functions combined_signals calls:
\* moving_average (lines 63-67), rsi (161-165), bollinger_bands (206-213),
\* macd (123-130), golden_death_cross and trend_strength
ArgumentsAccepted(n, p) ==
    /\ p.ma_fast > 0 /\ p.ma_slow > 0 /\ n >= p.ma_fast /\ n >= p.ma_slow
    /\ p.rsi_period > 0 /\ n >= p.rsi_period + 1
    /\ p.bb_period > 0 /\ p.bb_std.num > 0 /\ n >= p.bb_period
    /\ p.macd_fast > 0 /\ p.macd_signal_period > 0 /\ p.macd_fast < p.macd_slow
    /\ n >= p.macd_slow /\ n >= p.macd_signal_period
    /\ n >= TrendWindow + 1

\* signals.combined_signals(data, ...): one record per bar
CombinedSignals(frame, p) ==
    IF CombinedCols \ frame.columns # {} THEN [status |-> "ValueError"]
    ELSE IF ~ArgumentsAccepted(Len(frame.close), p) THEN [status |-> "ValueError"]
    ELSE LET close_series == frame.close
             ma_fast_series == MovingAverage(close_series, p.ma_fast)
             ma_slow_series == MovingAverage(close_series, p.ma_slow)
             rsi_series == Rsi(close_series, p.rsi_period)
             bands == BollingerBands(close_series, p.bb_period, p.bb_std)
             lines == Macd(close_series, p.macd_fast, p.macd_slow, p.macd_signal_period)
             ma_sig == GoldenDeathCross(ma_fast_series, ma_slow_series, 5).signals
             rsi_sig == OversoldOverbought(rsi_series)
             macd_sig == MacdSignal(lines.macd_line, lines.signal_line)
             bb_pos == BbPosition(close_series, bands.upper, bands.lower)
             trend_str == TrendStrength(close_series, TrendWindow)
         IN [status |-> "returned",
             value |-> [i \in 1..Len(close_series) |->
                           [ma_signal |-> ma_sig[i],
                            rsi_signal |-> rsi_sig[i],
                            macd_signal |-> macd_sig[i],
                            bb_position |-> bb_pos[i],
                            trend_strength |-> trend_str[i],
                            composite_score |->
                                CompositeScore(ma_sig[i], rsi_sig[i], macd_sig[i], bb_pos[i],
                                               trend_str[i])]]]

\* The inputs: a slide of SlideLen bars falling by a fixed step to one above
\* the floor price 1, then FloorLen bars at the floor, then one last bar.
SlideLen == 27
FloorLen == 20

Slide(step, last) ==
    [i \in 1..SlideLen + FloorLen + 1 |->
        IF i <= SlideLen THEN 1 + step * (SlideLen + 1 - i)
        ELSE IF i <= SlideLen + FloorLen THEN 1
        ELSE last]

SlideSeries == {Slide(step, last) : step \in 0..7, last \in {1, 2, 3, 4, 6, 11}}

DefaultParams(bb_std) ==
    [ma_fast |-> 5, ma_slow |-> 20, rsi_period |-> 14, bb_period |-> 20, bb_std |-> bb_std,
     macd_fast |-> 12, macd_slow |-> 26, macd_signal_period |-> 9]

CombinedInputs ==
    {[fn |-> "combined_signals",
      data |-> [columns |-> {"open", "high", "low", "close", "volume"}, close |-> series],
      params |-> DefaultParams(bb_std)] :
        series \in SlideSeries \cup {SubSeq(Slide(1, 4), SlideLen + 1, SlideLen + FloorLen + 1)},
        bb_std \in {[num |-> 2, den |-> 1], [num |-> 3, den |-> 1]}}

InitCombined ==
    /\ lib_call \in CombinedInputs
    /\ lib_ret = NoLibReturn
    /\ OthersIdle
    /\ LedgerIdle

CallCombinedSignals ==
    /\ lib_call.fn = "combined_signals"
    /\ lib_ret = NoLibReturn
    /\ lib_ret' = CombinedSignals(lib_call.data, lib_call.params)
    /\ UNCHANGED lib_call
    /\ UNCHANGED nonLibVars
    /\ UNCHANGED ledgerVars

NextCombined == CallCombinedSignals

SpecCombined == InitCombined /\ [][NextCombined]_vars

-----------------------------------------------------------------------------
(* stock_analysis/indicators.py and technical_old.py : indicator calls      *)
(*                                                                         *)
(* A pandas Series is a sequence whose entry is Some(v) or None (NaN); its *)
(* index is the positions 1..Len.  A returned Series carries the index     *)
(* labels it kept.  The hand-rolled functions take plain lists of numbers. *)

MaxPoints == 5
MaxWindow == 3

\* validate_input: data.dropna(), then the emptiness check (lines 35-41)
ValidateInput(series) ==
    LET labels == SelectSeq([i \in 1..Len(series) |-> i], LAMBDA i : series[i] # None)
    IN IF Len(labels) = 0 THEN [status |-> "ValueError"]
       ELSE [status |-> "ok", index |-> labels,
             values |-> [k \in 1..Len(labels) |-> Val(series[labels[k]])]]

\* lines 66-67, 95-96: len(data) < window
NotEnoughData(n, window) == n < window

\* indicators.moving_average(data, window): entries in 1/Milli
IndicatorsMovingAverage(series, window) ==
    LET clean == ValidateInput(series)
    IN IF clean.status = "ValueError" THEN [status |-> "ValueError"]
       ELSE IF window <= 0 THEN [status |-> "ValueError"]
       ELSE IF NotEnoughData(Len(clean.values), window) THEN [status |-> "ValueError"]
       ELSE [status |-> "returned", index |-> clean.index,
             value |-> MovingAverage(clean.values, window)]

\* indicators.ema(data, window): entries in 1/Milli
IndicatorsEma(series, window) ==
    LET clean == ValidateInput(series)
    IN IF clean.status = "ValueError" THEN [status |-> "ValueError"]
       ELSE IF window <= 0 THEN [status |-> "ValueError"]
       ELSE IF NotEnoughData(Len(clean.values), window) THEN [status |-> "ValueError"]
       ELSE [status |-> "returned", index |-> clean.index,
             value |-> Ema([k \in 1..Len(clean.values) |-> clean.values[k] * Milli], window)]

\* indicators.macd(data, fast, slow, signal): the three lines in 1/Milli
IndicatorsMacd(series, fast, slow, signal) ==
    LET clean == ValidateInput(series)
        longest == IF slow > signal THEN slow ELSE signal
    IN IF clean.status = "ValueError" THEN [status |-> "ValueError"]
       ELSE IF fast <= 0 \/ slow <= 0 \/ signal <= 0 THEN [status |-> "ValueError"]
       ELSE IF fast >= slow THEN [status |-> "ValueError"]
       ELSE IF Len(clean.values) < longest THEN [status |-> "ValueError"]
       ELSE [status |-> "returned", index |-> clean.index,
             value |-> Macd(clean.values, fast, slow, signal)]

\* indicators.rsi(data, window): entries in 1/Scale2
IndicatorsRsi(series, window) ==
    LET clean == ValidateInput(series)
    IN IF clean.status = "ValueError" THEN [status |-> "ValueError"]
       ELSE IF window <= 0 THEN [status |-> "ValueError"]
       ELSE IF Len(clean.values) < window + 1 THEN [status |-> "ValueError"]
       ELSE [status |-> "returned", index |-> clean.index,
             value |-> Rsi(clean.values, window)]

\* The inputs: up to MaxPoints prices from three levels, with or without
\* missing entries, and windows up to MaxWindow.
PointLevels == {9, 10, 12}

CleanSeries == UNION {[1..n -> PointLevels] : n \in 0..MaxPoints}

GappedSeries ==
    UNION {[1..n -> {Some(v) : v \in PointLevels} \cup {None}] : n \in 0..MaxPoints}

Lifted(closes) == [i \in 1..Len(closes) |-> Some(closes[i])]

InitIndicators ==
    /\ \/ \E series \in GappedSeries, window \in 0..MaxWindow,
             fn \in {"moving_average", "ema", "rsi"} :
               lib_call = [fn |-> fn, data |-> series, window |-> window]
       \/ \E closes \in CleanSeries, fast \in 0..MaxWindow - 1, slow \in 2..MaxWindow,
             signal \in 1..2 :
               lib_call = [fn |-> "macd", data |-> Lifted(closes), fast |-> fast,
                           slow |-> slow, signal |-> signal]
       \/ \E closes \in CleanSeries, period \in 1..MaxWindow,
             fn \in {"calc_ma", "calc_ema", "calc_rsi"} :
               lib_call = [fn |-> fn, closes |-> closes, period |-> period]
       \/ \E closes \in CleanSeries : lib_call = [fn |-> "calc_macd", closes |-> closes]
    /\ lib_ret = NoLibReturn
    /\ OthersIdle
    /\ LedgerIdle

Returns(result) ==
    /\ lib_ret = NoLibReturn
    /\ lib_ret' = result
    /\ UNCHANGED lib_call
    /\ UNCHANGED nonLibVars
    /\ UNCHANGED ledgerVars

CallMovingAverage ==
    /\ lib_call.fn = "moving_average"
    /\ Returns(IndicatorsMovingAverage(lib_call.data, lib_call.window))

CallEma ==
    /\ lib_call.fn = "ema"
    /\ Returns(IndicatorsEma(lib_call.data, lib_call.window))

CallMacd ==
    /\ lib_call.fn = "macd"
    /\ Returns(IndicatorsMacd(lib_call.data, lib_call.fast, lib_call.slow, lib_call.signal))

CallRsi ==
    /\ lib_call.fn = "rsi"
    /\ Returns(IndicatorsRsi(lib_call.data, lib_call.window))

CallCalcMa ==
    /\ lib_call.fn = "calc_ma"
    /\ Returns([status |-> "returned", value |-> CalcMA(lib_call.closes, lib_call.period)])

CallCalcEma ==
    /\ lib_call.fn = "calc_ema"
    /\ Returns([status |-> "returned",
                value |-> CalcEMA([i \in 1..Len(lib_call.closes) |-> lib_call.closes[i] * Scale4],
                                  lib_call.period)])

CallCalcMacd ==
    /\ lib_call.fn = "calc_macd"
    /\ Returns([status |-> "returned", value |-> CalcMACD(lib_call.closes)])

CallCalcRsi ==
    /\ lib_call.fn = "calc_rsi"
    /\ Returns([status |-> "returned", value |-> CalcRSI(lib_call.closes, lib_call.period)])

NextIndicators ==
    \/ CallMovingAverage
    \/ CallEma
    \/ CallMacd
    \/ CallRsi
    \/ CallCalcMa
    \/ CallCalcEma
    \/ CallCalcMacd
    \/ CallCalcRsi

SpecIndicators == InitIndicators /\ [][NextIndicators]_vars

-----------------------------------------------------------------------------
(* technical.py : analyze_stock                                             *)
(*                                                                         *)
(* The fetched klines are the input; every indicator is the library's.     *)
(* Reported values are in 1/Scale2 (the MACD lines in 1/Milli), KDJ is     *)
(* computed in exact fractions.  Signal names are written in English:      *)
(*   MA5 crosses above MA10 (golden cross) = MA5上穿MA10（金叉）,             *)
(*   MA5 crosses below MA10 (death cross) = MA5下穿MA10（死叉）.              *)

TrendLen == 57

\* line 70: fewer klines are refused
MinAnalyzeBars == 60

\* round(ma.iloc[-1], 2) of indicators.moving_average, lines 115-118
LastMean(series, window) ==
    IF Len(series) < window THEN None
    ELSE Some(RoundDiv(SumRange(series, Len(series) - window + 1, Len(series)) * Scale2,
                       window))

\* the mean of the three entries that end at i, as rolling(3).mean() gives it
MeanOfThree(xs, i) ==
    IF i < 3 \/ xs[i] = None \/ xs[i - 1] = None \/ xs[i - 2] = None THEN None
    ELSE LET total == FracAdd(FracAdd(Val(xs[i]), Val(xs[i - 1])), Val(xs[i - 2]))
         IN Some(Frac(total.num, total.den * 3))

\* indicators.kdj(high, low, close) with its default windows 9, 3, 3
IndicatorsKdj(high, low, close) ==
    LET n == Len(close)
        k_raw == [i \in 1..n |->
                     IF i < 9 THEN None
                     ELSE LET lowest_low == MinOf({low[x] : x \in (i - 8)..i})
                              highest_high == MaxOf({high[x] : x \in (i - 8)..i})
                          IN IF highest_high = lowest_low THEN None
                             ELSE Some(Frac(100 * (close[i] - lowest_low),
                                            highest_high - lowest_low))]
        k_line == [i \in 1..n |-> MeanOfThree(k_raw, i)]
        d_line == [i \in 1..n |-> MeanOfThree(k_line, i)]
    IN [k |-> k_line, d |-> d_line]

\* indicators.obv(close, volume), lines 307-323
RECURSIVE Obv(_, _, _)
Obv(close, volume, i) ==
    IF i = 1 THEN volume[1]
    ELSE IF close[i] > close[i - 1] THEN Obv(close, volume, i - 1) + volume[i]
    ELSE IF close[i] < close[i - 1] THEN Obv(close, volume, i - 1) - volume[i]
    ELSE Obv(close, volume, i - 1)

\* round(x, 2) of a fraction, or None for NaN
Round2(x) == IF x = None THEN None ELSE Some(RoundDiv(Val(x).num * Scale2, Val(x).den))

\* round(x, 2) of a value in 1/Milli, or None for NaN
MilliRound2(x) == IF x = None THEN None ELSE Some(RoundDiv(Val(x), Milli \div Scale2))

\* the MA rule, lines 146-152: the levels of the latest bar are compared
MaSignal(ma5, ma10) ==
    IF Truthy(ma5) /\ Truthy(ma10)
    THEN IF Val(ma5) > Val(ma10) THEN <<"MA5 crosses above MA10 (golden cross)">>
         ELSE IF Val(ma5) < Val(ma10) THEN <<"MA5 crosses below MA10 (death cross)">>
         ELSE <<>>
    ELSE <<>>

\* analyze_stock(code, days) on the klines fetched, lines 66-177
AnalyzeStock(klines) ==
    IF Len(klines) < MinAnalyzeBars THEN [error |-> "insufficient data"]
    ELSE LET closes == Closes(klines)
             n == Len(klines)
             lines == Macd(closes, 12, 26, 9)
             rsi == Rsi(closes, 14)
             kd == IndicatorsKdj([i \in 1..n |-> klines[i].high],
                                 [i \in 1..n |-> klines[i].low], closes)
             bands == BollingerBands(closes, 20, [num |-> 2, den |-> 1])
             ma5 == LastMean(closes, 5)
             ma10 == LastMean(closes, 10)
             dif == Some(lines.macd_line[n])
             dea == Some(lines.signal_line[n])
             hist == Some(lines.histogram[n])
             k == Round2(kd.k[n])
             d == Round2(kd.d[n])
             j == IF kd.k[n] = None \/ kd.d[n] = None THEN None
                  ELSE Round2(Some(Frac(3 * Val(kd.k[n]).num * Val(kd.d[n]).den
                                          - 2 * Val(kd.d[n]).num * Val(kd.k[n]).den,
                                        Val(kd.k[n]).den * Val(kd.d[n]).den)))
             rsi14 == rsi[n]
             ma_signal == MaSignal(ma5, ma10)
             macd_signal ==
                 IF Truthy(dif) /\ Truthy(dea)
                 THEN IF Val(dif) > Val(dea) /\ Val(hist) > 0 THEN <<"MACD golden cross (bullish)">>
                      ELSE IF Val(dif) < Val(dea) /\ Val(hist) < 0
                      THEN <<"MACD death cross (bearish)">>
                      ELSE <<>>
                 ELSE <<>>
             rsi_signal ==
                 IF Truthy(rsi14)
                 THEN IF Val(rsi14) > 70 * Scale2 THEN <<"RSI overbought (>70)">>
                      ELSE IF Val(rsi14) < 30 * Scale2 THEN <<"RSI oversold (<30)">>
                      ELSE <<>>
                 ELSE <<>>
             kdj_signal ==
                 IF Truthy(k) /\ Truthy(d)
                 THEN IF Val(k) > 80 * Scale2 /\ Val(d) > 80 * Scale2
                      THEN <<"KDJ overbought zone (>80)">>
                      ELSE IF Val(k) < 20 * Scale2 /\ Val(d) < 20 * Scale2
                      THEN <<"KDJ oversold zone (<20)">>
                      ELSE <<>>
                 ELSE <<>>
         IN [price |-> klines[n].close,
             volume |-> klines[n].volume,
             ma |-> [ma5 |-> ma5, ma10 |-> ma10, ma20 |-> LastMean(closes, 20),
                     ma60 |-> LastMean(closes, 60)],
             macd |-> [dif |-> dif, dea |-> dea, macd |-> hist],
             kdj |-> [k |-> k, d |-> d, j |-> j],
             rsi |-> [rsi14 |-> rsi14],
             boll |-> [upper |-> MilliRound2(bands.upper[n]),
                       middle |-> MilliRound2(bands.middle[n]),
                       lower |-> MilliRound2(bands.lower[n])],
             obv |-> [value |-> Obv(closes, [i \in 1..n |-> klines[i].volume], n)],
             signals |-> ma_signal \o macd_signal \o rsi_signal \o kdj_signal]

\* The klines fetched: TrendLen bars of a trend and three more bars, or one
\* bar fewer than analyze_stock needs.
Kline(close) == [close |-> close, high |-> close + 1, low |-> close - 1, volume |-> 1000]

Trend(shape, i) ==
    CASE shape = "rise" -> 10 + (10 * (i - 1)) \div (TrendLen - 1)
      [] shape = "fall" -> 20 - (10 * (i - 1)) \div (TrendLen - 1)
      [] shape = "wave" -> 15 + Swing[((i - 1) % 8) + 1]
      [] shape = "flat" -> 15

TailCloses == {12, 15, 16, 18, 20}

FetchedKlines ==
    {[i \in 1..TrendLen + 3 |->
         Kline(IF i <= TrendLen THEN Trend(shape, i) ELSE tail[i - TrendLen])] :
        shape \in {"rise", "fall", "wave", "flat"}, tail \in [1..3 -> TailCloses]}
    \cup {[i \in 1..MinAnalyzeBars - 1 |-> Kline(Trend("rise", i))]}

InitAnalyzeStock ==
    /\ \E klines \in FetchedKlines : lib_call = [fn |-> "analyze_stock", klines |-> klines]
    /\ lib_ret = NoLibReturn
    /\ OthersIdle
    /\ LedgerIdle

CallAnalyzeStock ==
    /\ lib_call.fn = "analyze_stock"
    /\ Returns([status |-> "returned", value |-> AnalyzeStock(lib_call.klines)])

NextAnalyzeStock == CallAnalyzeStock

SpecAnalyzeStock == InitAnalyzeStock /\ [][NextAnalyzeStock]_vars

-----------------------------------------------------------------------------
(* portfolio.py : cmd_buy and cmd_sell run as concurrent processes         *)
(*                                                                         *)
(* Each process is one portfolio.py command.  A step is one system call    *)
(* on a ledger file or the in-memory work that follows it: open() of a     *)
(* file for reading together with flock(LOCK_SH); the read, the close and  *)
(* the command's arithmetic; open(path, 'w'), which truncates the file;    *)
(* flock(LOCK_EX); json.dump with the close that flushes it and drops the  *)
(* lock.  A ledger is shorter than the io buffer, so json.dump reaches the *)
(* file in one write.  A file is None when it holds no bytes, else the     *)
(* JSON value in it.  Money is a count of 1/Scale2 and avg_cost a count of *)
(* 1/Scale4; a price is a whole number.  The "time" of a trade is left out. *)

MaxProcs == 2

Processes == 1..MaxProcs

LedgerCode == "600519"

\* the commands a process may be started with
CommandLines ==
    [action : {"buy", "sell"}, code : {LedgerCode}, shares : {100, 300}, price : {12}]

\* the account after init --capital 7000 and buy 600519 200 10
OpenedPortfolio ==
    [total_cash |-> 5000 * Scale2,
     initial_capital |-> 7000 * Scale2,
     positions |-> [c \in {LedgerCode} |->
                      [name |-> LedgerCode, shares |-> 200,
                       avg_cost |-> 10 * Scale4, total_cost |-> 2000 * Scale2]],
     created_at |-> Some("2026-01-05 09:30:00")]

OpenedTrades ==
    <<[action |-> "init", code |-> "-", name |-> "-", shares |-> 0, price |-> 0,
       amount |-> 7000 * Scale2, note |-> None],
      [action |-> "buy", code |-> LedgerCode, name |-> LedgerCode, shares |-> 200,
       price |-> 10, amount |-> -(2000 * Scale2), note |-> None]>>

\* lines 36-41: the default of _get_portfolio
DefaultPortfolio ==
    [total_cash |-> 0, initial_capital |-> 0,
     positions |-> [c \in {} |-> None], created_at |-> None]

\* lines 19-28: what _read_json returns for a file holding content
ReadJson(content, default) ==
    IF content = None THEN default ELSE Val(content)

\* lines 120-157: cmd_buy on the portfolio p it read
CmdBuy(p, args) ==
    LET cost == args.shares * args.price * Scale2
        pos == p.positions
        bought ==
            IF args.code \in DOMAIN pos
            THEN LET old == pos[args.code]
                     new_shares == old.shares + args.shares
                     new_total == old.total_cost + cost
                 IN [name |-> old.name, shares |-> new_shares,
                     avg_cost |-> RoundDiv(new_total * (Scale4 \div Scale2), new_shares),
                     total_cost |-> new_total]
            ELSE [name |-> args.code, shares |-> args.shares,
                  avg_cost |-> args.price * Scale4, total_cost |-> cost]
    IN IF cost > p.total_cash
       THEN [exit |-> 1, p |-> p, trade |-> None]
       ELSE [exit |-> 0,
             p |-> [p EXCEPT !.positions =
                                 [c \in DOMAIN pos \cup {args.code} |->
                                     IF c = args.code THEN bought ELSE pos[c]],
                             !.total_cash = p.total_cash - cost],
             trade |-> Some([action |-> "buy", code |-> args.code, name |-> args.code,
                             shares |-> args.shares, price |-> args.price,
                             amount |-> -cost, note |-> None])]

\* lines 159-201: cmd_sell on the portfolio p it read
CmdSell(p, args) ==
    LET pos == p.positions
        old == pos[args.code]
        income == args.shares * args.price * Scale2
        cost_basis == RoundDiv(old.avg_cost * args.shares, Scale4 \div Scale2)
        profit == income - cost_basis
        remaining == old.shares - args.shares
    IN IF args.code \notin DOMAIN pos
       THEN [exit |-> 1, p |-> p, trade |-> None]
       ELSE IF args.shares > old.shares
       THEN [exit |-> 1, p |-> p, trade |-> None]
       ELSE [exit |-> 0,
             p |-> [p EXCEPT !.positions =
                                 IF remaining = 0
                                 THEN [c \in DOMAIN pos \ {args.code} |-> pos[c]]
                                 ELSE [pos EXCEPT ![args.code] =
                                          [name |-> old.name, shares |-> remaining,
                                           avg_cost |-> old.avg_cost,
                                           total_cost |-> RoundDiv(old.avg_cost * remaining,
                                                                   Scale4 \div Scale2)]],
                             !.total_cash = p.total_cash + income],
             trade |-> Some([action |-> "sell", code |-> args.code, name |-> old.name,
                             shares |-> args.shares, price |-> args.price,
                             amount |-> income, note |-> Some(profit)])]

Command(p, args) ==
    IF args.action = "buy" THEN CmdBuy(p, args) ELSE CmdSell(p, args)

\* the file a helper works on
PathOf(fn) ==
    IF fn \in {"_get_portfolio", "_save_portfolio"} THEN PORTFOLIO_FILE ELSE TRADES_FILE

Holders(path, mode) == {h \in locks[path] : h[2] = mode}

Release(pr, path) ==
    [locks EXCEPT ![path] = {h \in locks[path] : h[1] # pr}]

InitLedger ==
    /\ files = [path \in LedgerFiles |->
                   IF path = PORTFOLIO_FILE THEN Some(OpenedPortfolio) ELSE Some(OpenedTrades)]
    /\ locks = [path \in LedgerFiles |-> {}]
    /\ \E lines \in [Processes -> CommandLines] :
          procs = [pr \in Processes |->
                      [args |-> lines[pr], fn |-> "_get_portfolio", at |-> "call",
                       p |-> None, trade |-> None, trades |-> None]]
    /\ LibIdle
    /\ OthersIdle

\* lines 23-24: _read_json opens the file and takes the shared lock, waiting
\* while another process holds the exclusive one
FlockShared(pr) ==
    /\ procs[pr].fn \in {"_get_portfolio", "_get_trades"}
    /\ procs[pr].at = "call"
    /\ \A h \in Holders(PathOf(procs[pr].fn), "EX") : h[1] = pr
    /\ locks' = [locks EXCEPT ![PathOf(procs[pr].fn)] = @ \cup {<<pr, "SH">>}]
    /\ procs' = [procs EXCEPT ![pr].at = "locked"]
    /\ UNCHANGED files
    /\ UNCHANGED nonLibVars
    /\ UNCHANGED libVars

\* lines 25-26 and the body of the command up to its _save_portfolio: the
\* portfolio is read and the file closed, the trade is applied in memory
ReadPortfolio(pr) ==
    /\ procs[pr].fn = "_get_portfolio"
    /\ procs[pr].at = "locked"
    /\ LET out == Command(ReadJson(files[PORTFOLIO_FILE], DefaultPortfolio), procs[pr].args)
       IN procs' = [procs EXCEPT ![pr] =
                       IF out.exit = 1
                       THEN [@ EXCEPT !.fn = "exit", !.at = "call"]
                       ELSE [@ EXCEPT !.fn = "_save_portfolio", !.at = "call",
                                      !.p = Some(out.p), !.trade = out.trade]]
    /\ locks' = Release(pr, PORTFOLIO_FILE)
    /\ UNCHANGED files
    /\ UNCHANGED nonLibVars
    /\ UNCHANGED libVars

\* line 31: open(path, 'w') empties the file, before any lock is asked for
OpenTruncate(pr) ==
    /\ procs[pr].fn \in {"_save_portfolio", "_save_trades"}
    /\ procs[pr].at = "call"
    /\ files' = [files EXCEPT ![PathOf(procs[pr].fn)] = None]
    /\ procs' = [procs EXCEPT ![pr].at = "opened"]
    /\ UNCHANGED locks
    /\ UNCHANGED nonLibVars
    /\ UNCHANGED libVars

\* line 32: the exclusive lock, waiting while any other process holds a lock
FlockExclusive(pr) ==
    /\ procs[pr].fn \in {"_save_portfolio", "_save_trades"}
    /\ procs[pr].at = "opened"
    /\ \A h \in locks[PathOf(procs[pr].fn)] : h[1] = pr
    /\ locks' = [locks EXCEPT ![PathOf(procs[pr].fn)] = @ \cup {<<pr, "EX">>}]
    /\ procs' = [procs EXCEPT ![pr].at = "locked"]
    /\ UNCHANGED files
    /\ UNCHANGED nonLibVars
    /\ UNCHANGED libVars

\* line 33 and the end of the with block: the value is written from the start
\* of the file, the file is closed and the lock dropped
DumpAndClose(pr) ==
    /\ procs[pr].fn \in {"_save_portfolio", "_save_trades"}
    /\ procs[pr].at = "locked"
    /\ files' = [files EXCEPT ![PathOf(procs[pr].fn)] =
                    IF procs[pr].fn = "_save_portfolio" THEN procs[pr].p
                    ELSE procs[pr].trades]
    /\ locks' = Release(pr, PathOf(procs[pr].fn))
    /\ procs' = [procs EXCEPT ![pr].fn =
                    IF procs[pr].fn = "_save_portfolio" THEN "_get_trades" ELSE "returned",
                              ![pr].at = "call"]
    /\ UNCHANGED nonLibVars
    /\ UNCHANGED libVars

\* lines 60-71: _add_trade reads the trades and appends this command's
ReadTrades(pr) ==
    /\ procs[pr].fn = "_get_trades"
    /\ procs[pr].at = "locked"
    /\ procs' = [procs EXCEPT ![pr].trades =
                                  Some(Append(ReadJson(files[TRADES_FILE], <<>>),
                                              Val(procs[pr].trade))),
                              ![pr].fn = "_save_trades",
                              ![pr].at = "call"]
    /\ locks' = Release(pr, TRADES_FILE)
    /\ UNCHANGED files
    /\ UNCHANGED nonLibVars
    /\ UNCHANGED libVars

NextLedger ==
    \E pr \in DOMAIN procs :
        \/ FlockShared(pr)
        \/ ReadPortfolio(pr)
        \/ OpenTruncate(pr)
        \/ FlockExclusive(pr)
        \/ DumpAndClose(pr)
        \/ ReadTrades(pr)

SpecLedger == InitLedger /\ [][NextLedger]_vars

-----------------------------------------------------------------------------
(* Claims about backtest_stock *)

\* the firings of a signal whose forward return over h days is in range, in order
ResolvedFirings(signal_name, h) ==
    SelectSeq(fired, LAMBDA f : f.name = signal_name /\ f.day + h < Len(fetched))

CloseAt(idx) == fetched[idx + 1].close

\* r = (close[i+h] - close[i]) / close[i] with close[i] > 0: its sign is that of the difference
ForwardWin(f, h) ==
    IF f.type = "buy" THEN CloseAt(f.day + h) > CloseAt(f.day)
    ELSE CloseAt(f.day + h) < CloseAt(f.day)

ForwardReturn(f, h) == Frac(CloseAt(f.day + h) - CloseAt(f.day), CloseAt(f.day))

CountedOnce(stats, h) ==
    LET resolved == ResolvedFirings(stats.name, h)
        won == SelectSeq(resolved, LAMBDA f : ForwardWin(f, h))
    IN /\ stats.periods[h].total = Len(resolved)
       /\ stats.periods[h].wins = Len(won)
       /\ stats.periods[h].returns = [k \in 1..Len(resolved) |-> ForwardReturn(resolved[k], h)]

AllFiringsWin(signal_name, h) ==
    \A k \in 1..Len(fired) :
        fired[k].name = signal_name =>
            /\ fired[k].day + h < Len(fetched)
            /\ CloseAt(fired[k].day + h) > CloseAt(fired[k].day)

\* C11: every recorded firing with i+h in range is counted exactly once in its
\* (signal, horizon) total, with its forward return; it is a win iff the return
\* is positive for a buy and negative for a sell; the reported win_rate is
\* wins/total; a buy signal that fired exactly 3 times, each time with a positive
\* 5-day forward return, reports win_rate 1 at 5 days.
C11_ReturnsCountedOnce ==
    /\ \A k \in 1..Len(fired) : HasStats(signal_stats, fired[k].name)
    /\ \A i \in 1..Len(signal_stats) : \A h \in {1, 3, 5, 10, 20} :
          /\ CountedOnce(signal_stats[i], h)
          /\ (scan_pc = "done" /\ signal_stats[i].periods[h].total > 0) =>
                report.signals[i].periods[h].win_rate =
                    Frac(signal_stats[i].periods[h].wins, signal_stats[i].periods[h].total)
    /\ scan_pc = "done" =>
          \A i \in 1..Len(signal_stats) :
              (/\ signal_stats[i].type = "buy"
               /\ signal_stats[i].count = 3
               /\ AllFiringsWin(signal_stats[i].name, 5))
                  => report.signals[i].periods[5].win_rate = Frac(1, 1)

\* a buy signal fired exactly 3 times with a positive 5-day return each time, a
\* sell signal won, and some firing lost
C11_Witness ==
    /\ scan_pc = "done"
    /\ report.status = "ok"
    /\ \E i \in 1..Len(report.signals) :
          /\ report.signals[i].type = "buy"
          /\ report.signals[i].count = 3
          /\ AllFiringsWin(report.signals[i].name, 5)
          /\ report.signals[i].periods[5].win_rate = Frac(1, 1)
    /\ \E i \in 1..Len(report.signals) :
          /\ report.signals[i].type = "sell"
          /\ report.signals[i].periods[5].wins > 0
    /\ \E i \in 1..Len(report.signals) :
          report.signals[i].periods[5].wins < report.signals[i].periods[5].total

\* the signals of one type that fired at least 3 times
Eligible(signal_type) ==
    {i \in 1..Len(report.signals) :
        report.signals[i].type = signal_type /\ report.signals[i].count >= 3}

WinRate5(i) == report.signals[i].periods[5].win_rate

IsBestOf(best_signal, signal_type) ==
    /\ best_signal # None =>
          \E i \in Eligible(signal_type) :
              /\ report.signals[i].name = Val(best_signal)
              /\ \A j \in Eligible(signal_type) :
                    WinRate5(j).num * WinRate5(i).den <= WinRate5(i).num * WinRate5(j).den
    /\ best_signal = None => Eligible(signal_type) = {}

\* C12: best_buy_signal (best_sell_signal) is a buy (sell) signal with trigger
\* count >= 3 whose 5-day win rate is maximal among the signals of its type with
\* count >= 3, and it is None only when no signal of that type fired 3 times.
C12_BestSignal ==
    (scan_pc = "done" /\ report.status = "ok") =>
        /\ IsBestOf(report.best_buy_signal, "buy")
        /\ IsBestOf(report.best_sell_signal, "sell")

\* C29: every signal's record is consistent: for each horizon h,
\* wins[h] <= total[h] <= trigger count and len(returns[h]) = total[h], and a
\* longer horizon has resolved no more firings than a shorter one.
C29_RecordsConsistent ==
    \A i \in 1..Len(signal_stats) :
        /\ \A h \in Periods :
               /\ signal_stats[i].periods[h].wins <= signal_stats[i].periods[h].total
               /\ signal_stats[i].periods[h].total <= signal_stats[i].count
               /\ Len(signal_stats[i].periods[h].returns) = signal_stats[i].periods[h].total
        /\ \A h1, h2 \in Periods :
               h1 < h2 => signal_stats[i].periods[h2].total <= signal_stats[i].periods[h1].total

\* the scan is over and some signal has firings that the 20-day horizon did
\* not resolve, some it did, and both wins and losses after one day
C29_Witness ==
    /\ scan_pc = "done"
    /\ report.status = "ok"
    /\ \E i \in 1..Len(signal_stats) :
          /\ signal_stats[i].periods[20].total > 0
          /\ signal_stats[i].periods[20].total < signal_stats[i].periods[5].total
          /\ signal_stats[i].periods[5].total < signal_stats[i].count
          /\ signal_stats[i].periods[1].wins > 0
          /\ signal_stats[i].periods[1].wins < signal_stats[i].periods[1].total

-----------------------------------------------------------------------------
(* Claims about generate_trading_signals *)

BuyThreshold == [conservative |-> 60, moderate |-> 40, aggressive |-> 20]

IsBuyRow(row, strategy) ==
    /\ row.ma_signal = 1
    /\ row.rsi_signal # -1
    /\ row.composite_score # None
    /\ Val(row.composite_score) >= BuyThreshold[strategy]

IsSellRow(row, strategy) ==
    /\ row.ma_signal = -1
    /\ row.rsi_signal # 1
    /\ row.composite_score # None
    /\ Val(row.composite_score) <= 0 - BuyThreshold[strategy]

TradingReturned ==
    /\ lib_call.fn = "generate_trading_signals"
    /\ lib_ret.status = "returned"

\* C15: for every row and each of the three strategies the output is 1
\* exactly when ma_signal = 1, rsi_signal # -1 and composite_score >=
\* buy_threshold, -1 exactly when ma_signal = -1, rsi_signal # 1 and
\* composite_score <= sell_threshold, and 0 otherwise; it is always one of
\* -1, 0, 1 and no row meets both conditions.
C15_TradingSignals ==
    /\ (/\ lib_call.fn = "generate_trading_signals"
        /\ lib_ret # NoLibReturn
        /\ lib_call.strategy \in {"conservative", "moderate", "aggressive"}
        /\ RequiredCols \subseteq lib_call.data.columns) => lib_ret.status = "returned"
    /\ TradingReturned =>
          /\ Len(lib_ret.value) = Len(lib_call.data.rows)
          /\ \A k \in 1..Len(lib_ret.value) :
                LET row == lib_call.data.rows[k]
                    buy == IsBuyRow(row, lib_call.strategy)
                    sell == IsSellRow(row, lib_call.strategy)
                IN /\ lib_ret.value[k] \in {-1, 0, 1}
                   /\ lib_ret.value[k] = 1 <=> buy
                   /\ lib_ret.value[k] = -1 <=> sell
                   /\ lib_ret.value[k] = 0 <=> (~buy /\ ~sell)
                   /\ ~(buy /\ sell)

\* a frame with a row answered by a buy and a row answered by a sell
C15_Witness ==
    /\ TradingReturned
    /\ \E j, k \in 1..Len(lib_ret.value) :
          /\ lib_ret.value[j] = 1
          /\ lib_ret.value[k] = -1

-----------------------------------------------------------------------------
(* Claims about max_drawdown *)

DrawdownReturned ==
    /\ lib_call.fn = "max_drawdown"
    /\ lib_ret.status = "returned"

NonDecreasing(values) == \A i \in 1..Len(values) - 1 : values[i] <= values[i + 1]

\* C19: for every series of positive portfolio values max_drawdown is <= 0,
\* and it is 0 exactly for the non-decreasing series, those of length < 2
\* included.
C19_MaxDrawdown ==
    DrawdownReturned =>
        /\ lib_ret.value.den > 0
        /\ lib_ret.value.num <= 0
        /\ lib_ret.value.num = 0 <=> NonDecreasing(lib_call.values)
        /\ Len(lib_call.values) < 2 => lib_ret.value.num = 0

\* a series that rises, falls below its peak and ends there: its drawdown is
\* (90 - 110) / 110
C19_Witness ==
    /\ DrawdownReturned
    /\ lib_call.values = <<100, 110, 90>>
    /\ lib_ret.value = [num |-> -2, den |-> 11]

-----------------------------------------------------------------------------
(* Claims about combined_signals *)

CombinedReturned ==
    /\ lib_call.fn = "combined_signals"
    /\ lib_ret.status = "returned"

\* C16: at every bar where combined_signals defines a composite_score, the
\* score lies in [-1, 1].
C16_CompositeInRange ==
    CombinedReturned =>
        \A i \in 1..Len(lib_ret.value) :
            lib_ret.value[i].composite_score # None =>
                /\ Val(lib_ret.value[i].composite_score) >= -Milli
                /\ Val(lib_ret.value[i].composite_score) <= Milli

-----------------------------------------------------------------------------
(* Claims about the indicator functions *)

Returned(fns) ==
    /\ lib_call.fn \in fns
    /\ lib_ret.status = "returned"

\* C21: every defined RSI value lies in [0, 100], for indicators.rsi and for
\* calc_rsi, also where the average loss is zero.
C21_RsiInRange ==
    Returned({"rsi", "calc_rsi"}) =>
        \A i \in 1..Len(lib_ret.value) :
            lib_ret.value[i] # None =>
                /\ Val(lib_ret.value[i]) >= 0
                /\ Val(lib_ret.value[i]) <= 100 * Scale2

\* calc_rsi over rising closes: the average loss is zero and the value 99.01
C21_Witness ==
    /\ Returned({"calc_rsi"})
    /\ lib_call.closes = <<9, 10, 12, 12>>
    /\ lib_call.period = 2
    /\ lib_ret.value = <<None, None, Some(9901), Some(9901)>>

\* the numbers a call computes on: the entries validate_input keeps, or the list
InputValues ==
    IF lib_call.fn \in {"calc_ma", "calc_ema", "calc_rsi", "calc_macd"} THEN lib_call.closes
    ELSE ValidateInput(lib_call.data).values

\* none of the period price changes that end at position i is an up-move
NoUpMove(values, i, period) ==
    \A j \in (i - period + 1)..i : j >= 2 => values[j] <= values[j - 1]

\* C22: where the trailing period price changes contain no up-move, the RSI
\* is 0, for indicators.rsi and for calc_rsi.
C22_NoUpMoveGivesZero ==
    Returned({"rsi", "calc_rsi"}) =>
        LET period == IF lib_call.fn = "rsi" THEN lib_call.window ELSE lib_call.period
        IN \A i \in 1..Len(lib_ret.value) :
               (lib_ret.value[i] # None /\ NoUpMove(InputValues, i, period)) =>
                   lib_ret.value[i] = Some(0)

C24_EmaRecurrence ==
    /\ Returned({"ema"}) =>
           /\ lib_ret.value[1] = InputValues[1] * Milli
           /\ \A i \in 2..Len(lib_ret.value) :
                  Abs(lib_ret.value[i] * (lib_call.window + 1)
                      - lib_ret.value[i - 1] * (lib_call.window - 1)
                      - 2 * InputValues[i] * Milli) <= 10 * (lib_call.window + 1)
    /\ Returned({"calc_ema"}) =>
           /\ Len(lib_ret.value) = Len(InputValues)
           /\ InputValues # <<>> => lib_ret.value[1] = InputValues[1] * Scale4
           /\ \A i \in 2..Len(lib_ret.value) :
                  lib_ret.value[i] =
                      RoundDiv(lib_ret.value[i - 1] * (lib_call.period - 1)
                               + 2 * InputValues[i] * Scale4, lib_call.period + 1)

\* C25: moving_average returns a series aligned with its input: of the same
\* length, not available at the first window - 1 positions and wherever the
\* input entry is NaN, and equal to v wherever defined on a constant series v.
C25_MovingAverageAligned ==
    Returned({"moving_average"}) =>
        /\ Len(lib_ret.value) = Len(lib_call.data)
        /\ \A i \in 1..Len(lib_call.data) :
               (i < lib_call.window \/ lib_call.data[i] = None) => lib_ret.value[i] = None
        /\ \A v \in PointLevels :
               (\A i \in 1..Len(lib_call.data) : lib_call.data[i] = Some(v)) =>
                   \A i \in 1..Len(lib_ret.value) :
                       lib_ret.value[i] # None => lib_ret.value[i] = Some(v * Milli)

\* the call has fewer data points than its window requires
TooFewPoints ==
    CASE lib_call.fn = "moving_average" -> Len(lib_call.data) < lib_call.window
      [] lib_call.fn = "rsi" -> Len(lib_call.data) < lib_call.window + 1
      [] lib_call.fn = "calc_ma" -> Len(lib_call.closes) < lib_call.period
      [] lib_call.fn = "calc_rsi" -> Len(lib_call.closes) < lib_call.period + 1
      [] OTHER -> FALSE

\* C26: a moving average or RSI given fewer data points than its window
\* requires ends in a validation error and returns nothing, for
\* indicators.moving_average, indicators.rsi, calc_ma and calc_rsi.
C26_ShortInputRaises ==
    (lib_ret # NoLibReturn /\ TooFewPoints) => lib_ret.status = "ValueError"

-----------------------------------------------------------------------------
(* Claims about analyze_stock *)

Reports(name) ==
    /\ Returned({"analyze_stock"})
    /\ "signals" \in DOMAIN lib_ret.value
    /\ \E i \in 1..Len(lib_ret.value.signals) : lib_ret.value.signals[i] = name

\* ten times MA5 minus MA10 at the bar that lies back bars before the latest
Ma5OverMa10(back) ==
    LET closes == Closes(lib_call.klines)
        n == Len(closes) - back
    IN 2 * SumRange(closes, n - 4, n) - SumRange(closes, n - 9, n)

\* C28: analyze_stock reports the MA golden cross only when MA5 went from
\* <= MA10 on the previous bar to > MA10 on the latest bar, and the death
\* cross only when it went from >= MA10 to < MA10.
C28_CrossOnlyOnTransition ==
    /\ Reports("MA5 crosses above MA10 (golden cross)") =>
           (Ma5OverMa10(1) <= 0 /\ Ma5OverMa10(0) > 0)
    /\ Reports("MA5 crosses below MA10 (death cross)") =>
           (Ma5OverMa10(1) >= 0 /\ Ma5OverMa10(0) < 0)

-----------------------------------------------------------------------------
(* Claims about BacktestEngine.run_backtest *)

\* this step processes a bar whose signal is sig
BarStep(sig) ==
    /\ pc = "loop"
    /\ bar' = bar + 1
    /\ signals[bar + 1] = sig

\* the step appended one record of the given action and quantity to the history
Traded(action, quantity) ==
    /\ Len(portfolio'.history) = Len(portfolio.history) + 1
    /\ Last(portfolio'.history).action = action
    /\ Last(portfolio'.history).quantity = quantity

\* floor(C * position_size / (c * (1 + transaction_cost)))
SharesNetOfCost(cash, size, close, tcost) ==
    (cash * size.num * tcost.den) \div (size.den * close * (tcost.den + tcost.num))

\* C1: on a buy signal at close c with cash C, run_backtest buys exactly
\* floor(C * position_size / (c * (1 + transaction_cost))) shares, if that is > 0
\* and affordable, and cash decreases by shares * c * (1 + transaction_cost).
C1_BuySizedNetOfCost ==
    [][BarStep(1) =>
          LET close == data[bar + 1]
              shares == SharesNetOfCost(portfolio.cash, position_size, close,
                                        transaction_cost)
          IN IF shares > 0 /\ Affordable(shares, close, transaction_cost, portfolio.cash)
             THEN /\ Traded("BUY", shares)
                  /\ (portfolio.cash - portfolio'.cash) * transaction_cost.den
                       = shares * close * (transaction_cost.den + transaction_cost.num)
             ELSE portfolio' = portfolio]_vars

\* C2: on a sell signal with a position open, run_backtest sells the whole
\* position and cash grows by quantity * close * (1 - transaction_cost); a sell
\* signal with no position open changes nothing.
C2_SellNetOfCost ==
    [][BarStep(-1) =>
          IF Asset \in DOMAIN portfolio.positions
          THEN LET close == data[bar + 1]
                   quantity == portfolio.positions[Asset].quantity
               IN /\ Traded("SELL", quantity)
                  /\ Asset \notin DOMAIN portfolio'.positions
                  /\ (portfolio'.cash - portfolio.cash) * transaction_cost.den
                       = quantity * close * (transaction_cost.den - transaction_cost.num)
          ELSE portfolio' = portfolio]_vars

AllZero(sigs) == \A i \in 1..Len(sigs) : sigs[i] = 0

\* C5: on a freshly created engine a run with an all-zero signal series executes
\* no trade: the history stays empty, every recorded per-bar value is the initial
\* capital, and final_capital = initial_capital.
C5_AllZeroNoTrade ==
    (AllZero(signals) /\ runs <= 1) =>
        /\ portfolio.history = <<>>
        /\ \A i \in 1..Len(portfolio_values) : portfolio_values[i] = initial_capital
        /\ (pc = "done" => results.final_capital = initial_capital)

\* a first run over bars of different closes, all signals zero, has finished
C5_Witness ==
    /\ AllZero(signals)
    /\ runs = 1
    /\ pc = "done"
    /\ Len(data) >= 2
    /\ data[1] # data[2]
    /\ Len(results.portfolio_values) = Len(data)

\* the step is the call of run_backtest
RunStarts == pc # "loop" /\ pc' = "loop"

\* the step ends the second run on the engine
SecondRunFinishes == pc = "loop" /\ pc' = "done" /\ runs = 2

\* C17: every run_backtest invocation on an engine starts from the initial
\* capital with no open position, and a second run over the same bars and
\* signals returns the per-bar portfolio values and the final_capital of the
\* first.
C17_FreshStatePerRun ==
    [][/\ RunStarts =>
             /\ portfolio'.cash = initial_capital
             /\ portfolio'.positions = NewPortfolio(initial_capital).positions
       /\ SecondRunFinishes =>
             /\ results'.portfolio_values = results.portfolio_values
             /\ results'.final_capital = results.final_capital]_vars

\* C18: the total_trades that run_backtest reports equals the number of buy
\* and sell orders executed during the run, the records the run appended to
\* the portfolio's transaction history (on a new engine: the whole history).
C18_TotalTradesCountsOrders ==
    (pc = "done" /\ runs = 1) => results.total_trades = Len(portfolio.history)

\* the labels two indexes share, in increasing order
CommonLabels(frame_index, series_index) ==
    LET common == Labels(frame_index) \cap Labels(series_index)
    IN CHOOSE ordered \in [1..Cardinality(common) -> common] :
          \A i \in 1..Cardinality(common) - 1 : ordered[i] < ordered[i + 1]

MissingColumn == {"open", "high", "low", "close", "volume"} \ ohlcv.columns # {}

NoOverlap == Labels(ohlcv.index) \cap Labels(signal_series.index) = {}

\* the step is a call of run_backtest
RunCalled == runs' = runs + 1

\* C20: run_backtest checks its inputs before it simulates a bar: with a
\* required column missing, or no label common to the bar index and the signal
\* index, it raises an error and leaves the portfolio (cash, positions, history)
\* as it was; otherwise it simulates exactly the bars whose labels are in both
\* indexes.
C20_InputsReconciled ==
    [][/\ RunCalled =>
             /\ pc' = "ValueError" <=> (MissingColumn \/ NoOverlap)
             /\ pc' = "loop" <=> ~(MissingColumn \/ NoOverlap)
             /\ portfolio' = portfolio
             /\ bar' = 0 /\ portfolio_values' = <<>> /\ dates' = <<>>
       /\ pc = "ValueError" => portfolio' = portfolio
       /\ (pc = "loop" /\ pc' = "done") =>
             LET common == CommonLabels(ohlcv.index, signal_series.index)
             IN /\ dates' = common
                /\ Len(portfolio_values') = Len(common)
                /\ \A k \in 1..Len(common) :
                      /\ data'[k] = ohlcv.close[common[k]]
                      /\ signals'[k] = signal_series.values[common[k] - signal_series.index[1] + 1]
                /\ \A k \in 1..Len(portfolio'.history) :
                      portfolio'.history[k].date \in Labels(ohlcv.index)]_vars

\* a first run over a shifted signal index simulated fewer bars than the frame
\* has and bought; the second call was rejected with the position still held
C20_Witness ==
    /\ pc = "ValueError"
    /\ runs = 2
    /\ results.status = "ok"
    /\ Len(results.portfolio_values) < Len(ohlcv.index)
    /\ results.start_date = 2
    /\ Asset \in DOMAIN portfolio.positions
    /\ portfolio.history # <<>>

\* the portfolio of a new engine after the signals of the first k bars
RECURSIVE Replay(_)
Replay(k) ==
    IF k = 0 THEN NewPortfolio(initial_capital)
    ELSE ActOnSignal(Replay(k - 1), signals[k], data[k], position_size, transaction_cost,
                     AlignedIdx(ohlcv.index, signal_series.index)[k])

\* cash + shares * close of bar i
ValueAt(pf, i) == GetTotalValue(pf, [s \in {Asset} |-> data[i]])

\* C27: the value run_backtest records for a bar is cash + shares * close of
\* the portfolio as it is before the bar's signal is acted on, the result of the
\* signals of the earlier bars only; on a new engine the first value recorded
\* is the initial capital; final_capital is the last value recorded, which a
\* trade on the last bar does not change.
C27_RecordedBeforeActing ==
    [][/\ (pc = "loop" /\ bar' = bar + 1) =>
             /\ Len(portfolio_values') = bar + 1
             /\ SubSeq(portfolio_values', 1, bar) = portfolio_values
             /\ portfolio_values'[bar + 1] = ValueAt(portfolio, bar + 1)
             /\ runs = 1 => portfolio_values'[bar + 1] = ValueAt(Replay(bar), bar + 1)
             /\ (runs = 1 /\ bar = 0) => portfolio_values'[1] = initial_capital
       /\ (pc = "loop" /\ pc' = "done") =>
             /\ results'.final_capital = portfolio_values[Len(data)]
             /\ runs = 1 =>
                    results'.final_capital = ValueAt(Replay(Len(data) - 1), Len(data))]_vars

\* a first run ended with a buy executed on its last bar, and final_capital is
\* the value from before that buy
C27_Witness ==
    /\ runs = 1
    /\ pc = "done"
    /\ Len(data) = MaxBars
    /\ signals[MaxBars] = 1
    /\ portfolio.history # <<>>
    /\ Last(portfolio.history).action = "BUY"
    /\ Last(portfolio.history).date = Last(dates)
    /\ portfolio.cash < Replay(MaxBars - 1).cash
    /\ results.final_capital = ValueAt(Replay(MaxBars - 1), MaxBars)

-----------------------------------------------------------------------------
(* Claims about Portfolio.buy and Portfolio.sell *)

\* C3: in every state reached by buy and sell calls with positive quantity and
\* non-negative price, accepted or rejected, from initial_capital >= 0: cash >= 0.
C3_CashNonNegative == portfolio.cash >= 0

\* a buy was rejected after accepted trades had spent all the cash
C3_Witness ==
    /\ ret = "False"
    /\ call.op = "buy"
    /\ portfolio.cash = 0
    /\ Len(portfolio.history) > 0

\* the call made by this step would be rejected in the state before it
CallToReject ==
    /\ ncalls' = ncalls + 1
    /\ \/ /\ call'.op = "buy"
          /\ call'.quantity * call'.price > portfolio.cash
       \/ /\ call'.op = "sell"
          /\ \/ call'.symbol \notin DOMAIN portfolio.positions
             \/ call'.quantity > portfolio.positions[call'.symbol].quantity

\* C4: a buy whose cost exceeds cash, and a sell of a symbol not held or of more
\* than is held, returns False and leaves cash, positions and history as they were.
C4_RejectedAsAWhole ==
    [][CallToReject => (ret' = "False" /\ portfolio' = portfolio)]_vars

\* an oversell of a held symbol was rejected
C4_Witness ==
    /\ ret = "False"
    /\ call.op = "sell"
    /\ call.symbol \in DOMAIN portfolio.positions
    /\ call.quantity > portfolio.positions[call.symbol].quantity
    /\ Len(portfolio.history) > 0

\* the prices that value the traded symbol at the trade's price
PricesAt(symbol, price, other) ==
    [s \in Symbols |-> IF s = symbol THEN price ELSE other]

\* C6: every successful buy or sell at price p leaves get_total_value at price p
\* (cash + held quantity * p) as it was before the call.
C6_ValueConserved ==
    [][(ncalls' = ncalls + 1 /\ ret' = "True") =>
          \A other \in Prices :
              GetTotalValue(portfolio', PricesAt(call'.symbol, call'.price, other))
                = GetTotalValue(portfolio, PricesAt(call'.symbol, call'.price, other))]_vars

\* two shares were bought into a position held before, at a price above zero
C6_Witness ==
    /\ ret = "True"
    /\ call.op = "buy"
    /\ call.quantity = 2
    /\ call.price > 0
    /\ call.symbol \in DOMAIN portfolio.positions
    /\ portfolio.positions[call.symbol].quantity > 2

\* C7 as stated: whatever non-negative quantities the calls pass, no stored
\* position has quantity 0.
C7_NoZeroPosition ==
    \A s \in DOMAIN portfolio.positions : portfolio.positions[s].quantity > 0

PositiveTradesOnly ==
    \A i \in 1..Len(portfolio.history) : portfolio.history[i].quantity > 0

\* C7 amended: when every executed buy and sell had a positive quantity, no stored
\* position has quantity 0 (a sell that takes the quantity to 0 removes the position).
C7_NoZeroPositionPositiveCalls == PositiveTradesOnly => C7_NoZeroPosition

\* a sell of all the shares held has removed the position
C7_Witness ==
    /\ PositiveTradesOnly
    /\ ret = "True"
    /\ call.op = "sell"
    /\ call.quantity > 0
    /\ call.symbol \notin DOMAIN portfolio.positions

RECURSIVE BuyCostSum(_, _)
BuyCostSum(history, symbol) ==
    IF history = <<>> THEN 0
    ELSE (IF Last(history).symbol = symbol /\ Last(history).action = "BUY"
          THEN Last(history).cost ELSE 0)
         + BuyCostSum(SubSeq(history, 1, Len(history) - 1), symbol)

TradesOf(history, symbol) == SelectSeq(history, LAMBDA r : r.symbol = symbol)

OnlyBought(history, symbol) ==
    \A i \in 1..Len(history) : history[i].symbol = symbol => history[i].action = "BUY"

\* entry_price * quantity is the sum of the buys' costs, entry_date the first buy's date
EntryIsWeightedAverage ==
    \A s \in DOMAIN portfolio.positions :
        OnlyBought(portfolio.history, s) =>
            LET pos == portfolio.positions[s]
            IN /\ pos.entry_price.num * pos.quantity
                    = pos.entry_price.den * BuyCostSum(portfolio.history, s)
               /\ pos.entry_date = TradesOf(portfolio.history, s)[1].date

\* this step is a sell that leaves the position open
PartialSell ==
    /\ ncalls' = ncalls + 1
    /\ ret' = "True"
    /\ call'.op = "sell"
    /\ call'.symbol \in DOMAIN portfolio'.positions

\* C8: after buys (q1,p1)..(qn,pn) into a symbol, entry_price * quantity is
\* q1*p1 + .. + qn*pn and entry_date is the first buy's date; a partial sell
\* changes neither entry_price nor entry_date.
C8_EntryPriceAndDate ==
    [][/\ EntryIsWeightedAverage'
       /\ PartialSell =>
            /\ portfolio'.positions[call'.symbol].entry_price
                 = portfolio.positions[call'.symbol].entry_price
            /\ portfolio'.positions[call'.symbol].entry_date
                 = portfolio.positions[call'.symbol].entry_date]_vars

\* buys at different prices made a fractional average price, and a partial sell
\* has left the position open
C8_Witness ==
    /\ ret = "True"
    /\ call.op = "sell"
    /\ call.quantity > 0
    /\ call.symbol \in DOMAIN portfolio.positions
    /\ portfolio.positions[call.symbol].entry_price.den > 1
    /\ portfolio.positions[call.symbol].entry_date = 1

-----------------------------------------------------------------------------
(* Claims about the portfolio ledger *)

\* the ledger after the commands of the processes in the given order have
\* run one after the other, each to its end
RECURSIVE OneAfterAnother(_, _)
OneAfterAnother(order, ledger) ==
    IF order = <<>> THEN ledger
    ELSE LET out == Command(ledger.p, procs[Head(order)].args)
         IN OneAfterAnother(Tail(order),
                IF out.exit = 1 THEN ledger
                ELSE [p |-> out.p, trades |-> Append(ledger.trades, Val(out.trade))])

Orders ==
    {order \in [1..Cardinality(DOMAIN procs) -> DOMAIN procs] :
        \A i, j \in DOMAIN order : i # j => order[i] # order[j]}

AllEnded == \A pr \in DOMAIN procs : procs[pr].fn \in {"returned", "exit"}

\* a process holds the shared lock on a file that holds no bytes: its read
\* returns the default
ReadsEmptyFile ==
    \E pr \in DOMAIN procs :
        /\ procs[pr].fn \in {"_get_portfolio", "_get_trades"}
        /\ procs[pr].at = "locked"
        /\ files[PathOf(procs[pr].fn)] = None

\* the files hold what the commands leave when run in some order
BothTradesKept ==
    /\ files[PORTFOLIO_FILE] # None
    /\ files[TRADES_FILE] # None
    /\ \E order \in Orders :
          LET ledger == OneAfterAnother(order, [p |-> OpenedPortfolio, trades |-> OpenedTrades])
          IN /\ Val(files[PORTFOLIO_FILE]) = ledger.p
             /\ Val(files[TRADES_FILE]) = ledger.trades

\* C30: when portfolio.py commands run as concurrent processes, no reader
\* ever finds a ledger file empty, and once all have ended the portfolio and
\* the trades on disk reflect every command, as if they had run in some order.
C30_NoUpdateLost ==
    /\ ~ReadsEmptyFile
    /\ AllEnded => BothTradesKept

\* each half on its own: both fail under SpecLedger
NoEmptyRead == ~ReadsEmptyFile

FinalLedgerKeepsAll == AllEnded => BothTradesKept

====
